---------------------------- MODULE Spec2Model ----------------------------
(***************************************************************************)
(* The adaptive-precision predicate engine of tRIBS (predicates.cpp):      *)
(* exactinit, the expansion algebra, orient2d, incircle and                *)
(* DifferenceOfProductsOfDifferences, over a binary floating-point format  *)
(* with FBits significand bits, round-to-nearest-even and gradual          *)
(* underflow.                                                              *)
(*                                                                         *)
(* A tREAL is modelled by the integer number of quanta it holds: the value *)
(* n stands for the real number n * 2^-EBits, so 1.0 is the integer One.   *)
(* Every representable value has at most FBits significant bits.           *)
(***************************************************************************)
EXTENDS Integers, Sequences, FiniteSets, TLC

(***************************************************************************)
(* The floating-point format.                                              *)
(***************************************************************************)
FBits == 5

EBits == 2 * FBits

RECURSIVE Pow2(_)
Pow2(n) == IF n = 0 THEN 1 ELSE 2 * Pow2(n - 1)

TwoP == Pow2(FBits)

One == Pow2(EBits)

Abs(a) == IF a < 0 THEN -a ELSE a

Sign(a) == IF a > 0 THEN 1 ELSE IF a < 0 THEN -1 ELSE 0

\* The spacing of the representable values around m * 2^FBits: the smallest
\* power of two g >= g0 with m < g.
RECURSIVE GranFrom(_, _)
GranFrom(m, g) == IF m < g THEN g ELSE GranFrom(m, 2 * g)

\* The spacing of the representable values around n >= 0.
Gran(n) == GranFrom(n \div TwoP, 1)

\* n >= 0 rounded to a multiple of g, ties to the even multiple; sticky says
\* that the exact value lies strictly above n.
RoundTo(n, g, sticky) ==
  IF 2 * (n % g) > g \/ (2 * (n % g) = g /\ (sticky \/ (n \div g) % 2 = 1))
  THEN (n \div g + 1) * g
  ELSE (n \div g) * g

\* The exact value n rounded to the nearest representable value.
Rnd(n) == Sign(n) * RoundTo(Abs(n), Gran(Abs(n)), FALSE)

IsFloat(n) == Rnd(n) = n

\* a + b, a - b as the hardware computes them.
FAdd(a, b) == Rnd(a + b)

FSub(a, b) == Rnd(a - b)

\* The exact product of a, b >= 0 as <<whole quanta, remainder in 1/One quanta>>.
MulExact(a, b) ==
  << (a \div One) * b + (a % One) * (b \div One) + ((a % One) * (b % One)) \div One,
     ((a % One) * (b % One)) % One >>

\* The exact product x = <<quanta, remainder>> rounded: to a whole number of
\* quanta where the spacing is one quantum (a product below half a quantum
\* underflows to 0), to a multiple of the spacing otherwise.
MulRound(x) ==
  IF Gran(x[1]) = 1
  THEN RoundTo(x[1] * One + x[2], One, FALSE) \div One
  ELSE RoundTo(x[1], Gran(x[1]), x[2] > 0)

\* a * b as the hardware computes it.
FMul(a, b) == Sign(a) * Sign(b) * MulRound(MulExact(Abs(a), Abs(b)))

(***************************************************************************)
(* The error-free transformations of predicates.h.  The header is not part *)
(* of the sources at hand; each macro is modelled by its contract: the     *)
(* rounded result x and the tail y with x + y the exact result.            *)
(***************************************************************************)
Absolute(a) == Abs(a)

\* The rounded result x with the tail that makes up the exact result.
WithTail(x, exact) == <<x, exact - x>>

\* Two_Sum(a, b, x, y), as <<x, y>>.
Two_Sum(a, b) == WithTail(FAdd(a, b), a + b)

\* Fast_Two_Sum(a, b, x, y): the same result; the caller guarantees |a| >= |b|.
Fast_Two_Sum(a, b) == WithTail(FAdd(a, b), a + b)

\* Two_Diff(a, b, x, y).
Two_Diff(a, b) == WithTail(FSub(a, b), a - b)

\* Two_Diff_Tail(a, b, x, y): the tail alone, x being FSub(a, b).
Two_Diff_Tail(a, b, x) == (a - b) - x

\* The product e = <<quanta, remainder>> of two magnitudes as <<x, y>>, negated
\* when sign is -1.  The tail is exact whenever e is a whole number of quanta.
ProductWithTail(sign, e, x) ==
  <<sign * x, sign * ((e[1] - x) + (IF 2 * e[2] > One THEN 1 ELSE 0))>>

ProductOf(sign, e) == ProductWithTail(sign, e, MulRound(e))

\* Two_Product(a, b, x, y).
Two_Product(a, b) == ProductOf(Sign(a) * Sign(b), MulExact(Abs(a), Abs(b)))

\* Two_Product_Presplit(a, b, bhi, blo, x, y): Two_Product with b split before.
Two_Product_Presplit(a, b) == Two_Product(a, b)

\* Square(a, x, y).
Square(a) == Two_Product(a, a)

\* <<x2, x1, x0>> from <<x2, x1>> and x0.
Onto(j, x0) == <<j[1], j[2], x0>>

\* Two_Sum(a1, _i, x2, x1) with <<_i, x0>> = i.
One_Sum_High(a1, i) == Onto(Two_Sum(a1, i[1]), i[2])

\* Two_One_Sum(a1, a0, b, x2, x1, x0), as <<x2, x1, x0>>.
Two_One_Sum(a1, a0, b) == One_Sum_High(a1, Two_Sum(a0, b))

\* Two_One_Diff(a1, a0, b, x2, x1, x0), as <<x2, x1, x0>>.
Two_One_Diff(a1, a0, b) == One_Sum_High(a1, Two_Diff(a0, b))

\* The array <<x0, x1, x2, x3>> from <<x3, x2, x1>> and x0.
Under(t, x0) == <<x0, t[3], t[2], t[1]>>

\* Two_One_Sum(_j, _0, b1, x3, x2, x1) with <<_j, _0, x0>> = s.
Two_Sum_High(s, b1) == Under(Two_One_Sum(s[1], s[2], b1), s[3])

Two_Diff_High(s, b1) == Under(Two_One_Diff(s[1], s[2], b1), s[3])

\* Two_Two_Sum(a1, a0, b1, b0, x3, x2, x1, x0), as the array <<x0, x1, x2, x3>>.
Two_Two_Sum(a1, a0, b1, b0) == Two_Sum_High(Two_One_Sum(a1, a0, b0), b1)

\* Two_Two_Diff(a1, a0, b1, b0, x3, x2, x1, x0), as the array <<x0, x1, x2, x3>>.
Two_Two_Diff(a1, a0, b1, b0) == Two_Diff_High(Two_One_Diff(a1, a0, b0), b1)

\* Two_Two_Diff of the products a = <<a1, a0>> and b = <<b1, b0>>.
Diff_Of(a, b) == Two_Two_Diff(a[1], a[2], b[1], b[2])

\* Two_Two_Sum of the products a = <<a1, a0>> and b = <<b1, b0>>.
Sum_Of(a, b) == Two_Two_Sum(a[1], a[2], b[1], b[2])

(***************************************************************************)
(* exactinit(): the coefficient members of a Predicates object.           *)
(***************************************************************************)
\* k.0 as a tREAL.
Lit(k) == k * One

Half == One \div 2

\* The do-while loop of exactinit from the end of its body, where check has
\* just been set: <<epsilon, splitter>> when it ends.
RECURSIVE InitLoop(_, _, _, _, _)
InitLoop(epsilon, splitter, check, lastcheck, every_other) ==
  IF check # Lit(1) /\ check # lastcheck
  THEN InitLoop(FMul(epsilon, Half),
                IF every_other THEN FMul(splitter, Lit(2)) ELSE splitter,
                FAdd(Lit(1), FMul(epsilon, Half)),
                check,
                ~every_other)
  ELSE <<epsilon, splitter>>

\* The bound (a + b * epsilon) * epsilon [* epsilon].
Bound1(a, b, eps) == FMul(FAdd(Lit(a), FMul(Lit(b), eps)), eps)

Bound2(a, b, eps) == FMul(FMul(FAdd(Lit(a), FMul(Lit(b), eps)), eps), eps)

\* The members as exactinit leaves them, l = <<epsilon, splitter>> being what
\* the loop has computed.
Coefficients(l) ==
  [ epsilon        |-> l[1],
    splitter       |-> FAdd(l[2], Lit(1)),
    resulterrbound |-> Bound1(3, 8, l[1]),
    ccwerrboundA   |-> Bound1(3, 16, l[1]),
    ccwerrboundB   |-> Bound1(2, 12, l[1]),
    ccwerrboundC   |-> Bound2(9, 64, l[1]),
    o3derrboundA   |-> Bound1(7, 56, l[1]),
    o3derrboundB   |-> Bound1(3, 28, l[1]),
    o3derrboundC   |-> Bound2(26, 288, l[1]),
    iccerrboundA   |-> Bound1(10, 96, l[1]),
    iccerrboundB   |-> Bound1(4, 48, l[1]),
    iccerrboundC   |-> Bound2(44, 576, l[1]),
    isperrboundA   |-> Bound1(16, 224, l[1]),
    isperrboundB   |-> Bound1(5, 72, l[1]),
    isperrboundC   |-> Bound2(71, 1408, l[1]) ]

\* The first pass of the loop body runs with every_other = 1.
exactinit ==
  Coefficients(InitLoop(FMul(Lit(1), Half), FMul(Lit(1), Lit(2)),
                        FAdd(Lit(1), FMul(Lit(1), Half)), Lit(1), FALSE))

(***************************************************************************)
(* Arrays.  A C array e of which the callee is told the length elen is the *)
(* sequence of its first elen elements; C index i is position i + 1.  An   *)
(* output array h is the sequence of its slots up to the last one written. *)
(***************************************************************************)
\* The content of a slot that was never written.
Unwritten == 0 - (Pow2(30) + 1)

\* The content of e[i] for i >= elen: whatever lies behind the expansion.
Beyond == 0 - (Pow2(30) + 3)

Rd(e, i) == IF i < Len(e) THEN e[i + 1] ELSE Beyond

RECURSIVE Blank(_)
Blank(n) == IF n = 0 THEN <<>> ELSE Append(Blank(n - 1), Unwritten)

\* h after h[i] = v.
Put(h, i, v) ==
  IF i < Len(h) THEN [h EXCEPT ![i + 1] = v]
  ELSE Append(h \o Blank(i - Len(h)), v)

\* What an expansion operation hands back: the output array and the length
\* it returns.
Out(h, len) == [h |-> h, len |-> len]

\* (fnow > enow) == (fnow > -enow): the component of e is the smaller one.
TakeE(enow, fnow) == (fnow > enow) = (fnow > -enow)

(***************************************************************************)
(* grow_expansion, grow_expansion_zeroelim                                 *)
(***************************************************************************)
RECURSIVE grow_expansion_loop(_, _, _, _)
grow_expansion_loop(e, eindex, Q, h) ==
  IF eindex < Len(e)
  THEN LET s == Two_Sum(Q, Rd(e, eindex))
       IN  grow_expansion_loop(e, eindex + 1, s[1], Put(h, eindex, s[2]))
  ELSE Out(Put(h, eindex, Q), eindex + 1)

grow_expansion(e, b) == grow_expansion_loop(e, 0, b, <<>>)

\* The faulty variant that stores every component, zero or not.
KeepZero(h, hh) == Append(h, hh)

\* if (hh != 0.0) h[hindex++] = hh, with hindex = Len(h).
Keep(h, hh) == IF hh # 0 THEN Append(h, hh) ELSE h

\* A faulty end of a zero-eliminating operation: without || (hindex == 0).
KeepLastNonzero(h, Q) ==
  LET h2 == IF Q # 0 THEN Append(h, Q) ELSE h
  IN  Out(h2, Len(h2))

\* if ((Q != 0.0) || (hindex == 0)) h[hindex++] = Q; return hindex.
KeepLast(h, Q) ==
  LET h2 == IF Q # 0 \/ Len(h) = 0 THEN Append(h, Q) ELSE h
  IN  Out(h2, Len(h2))

RECURSIVE grow_expansion_zeroelim_loop(_, _, _, _)
grow_expansion_zeroelim_loop(e, eindex, Q, h) ==
  IF eindex < Len(e)
  THEN LET s == Two_Sum(Q, Rd(e, eindex))
       IN  grow_expansion_zeroelim_loop(e, eindex + 1, s[1], Keep(h, s[2]))
  ELSE KeepLast(h, Q)

grow_expansion_zeroelim(e, b) == grow_expansion_zeroelim_loop(e, 0, b, <<>>)

(***************************************************************************)
(* expansion_sum, expansion_sum_zeroelim1, expansion_sum_zeroelim2         *)
(***************************************************************************)
\* for (hindex = from; hindex <= hlast; hindex++) Two_Sum(Q, h[hindex], Q, h[hindex]);
\* h[++hlast] = Q.
RECURSIVE expansion_sum_inner(_, _, _, _)
expansion_sum_inner(h, hindex, hlast, Q) ==
  IF hindex <= hlast
  THEN LET s == Two_Sum(Q, Rd(h, hindex))
       IN  expansion_sum_inner(Put(h, hindex, s[2]), hindex + 1, hlast, s[1])
  ELSE Put(h, hlast + 1, Q)

\* for (findex = 1; findex < flen; findex++): the array h at the end and
\* hlast + 1, which ends as elen + flen.
RECURSIVE expansion_sum_outer(_, _, _, _)
expansion_sum_outer(f, findex, h, hlast) ==
  IF findex < Len(f)
  THEN expansion_sum_outer(f, findex + 1,
                           expansion_sum_inner(h, findex, hlast, Rd(f, findex)),
                           hlast + 1)
  ELSE Out(h, hlast + 1)

\* h after the first loop: e with f[0] added.
expansion_sum_first(g) == g.h

expansion_sum(e, f) ==
  expansion_sum_outer(f, 1, expansion_sum_first(grow_expansion_loop(e, 0, Rd(f, 0), <<>>)),
                      Len(e))

\* for (index = 0; index <= hlast; index++) if (h[index] != 0.0) h[++hindex] = h[index];
RECURSIVE zeroelim1_compact(_, _, _, _)
zeroelim1_compact(h, index, hlast, hindex) ==
  IF index <= hlast
  THEN IF Rd(h, index) # 0
       THEN zeroelim1_compact(Put(h, hindex + 1, Rd(h, index)), index + 1, hlast, hindex + 1)
       ELSE zeroelim1_compact(h, index + 1, hlast, hindex)
  ELSE Out(h, IF hindex = -1 THEN 1 ELSE hindex + 1)

\* The compaction of the sum r the two loop nests have left in h[0..hlast].
zeroelim1_of(r) == zeroelim1_compact(r.h, 0, r.len - 1, -1)

expansion_sum_zeroelim1(e, f) ==
  zeroelim1_of(expansion_sum_outer(f, 1,
                 expansion_sum_first(grow_expansion_loop(e, 0, Rd(f, 0), <<>>)), Len(e)))

\* One pass of expansion_sum_zeroelim2 over the components 0..last of e (the
\* first pass) or of h itself (inplace, the later passes): the nonzero tails
\* go to h[0], h[1], ..., then h[hindex] = Q; hlast = hindex.  Gives h with
\* the length hlast + 1.
RECURSIVE zeroelim2_pass(_, _, _, _, _, _, _)
zeroelim2_pass(e, inplace, eindex, last, Q, h, hindex) ==
  IF eindex <= last
  THEN LET s == Two_Sum(Q, IF inplace THEN Rd(h, eindex) ELSE Rd(e, eindex))
       IN  IF s[2] # 0
           THEN zeroelim2_pass(e, inplace, eindex + 1, last, s[1],
                               Put(h, hindex, s[2]), hindex + 1)
           ELSE zeroelim2_pass(e, inplace, eindex + 1, last, s[1], h, hindex)
  ELSE Out(Put(h, hindex, Q), hindex + 1)

\* for (findex = 1; findex < flen; findex++), r being h with hlast + 1.
RECURSIVE zeroelim2_outer(_, _, _)
zeroelim2_outer(f, findex, r) ==
  IF findex < Len(f)
  THEN zeroelim2_outer(f, findex + 1,
                       zeroelim2_pass(<<>>, TRUE, 0, r.len - 1, Rd(f, findex), r.h, 0))
  ELSE r

expansion_sum_zeroelim2(e, f) ==
  zeroelim2_outer(f, 1, zeroelim2_pass(e, FALSE, 0, Len(e) - 1, Rd(f, 0), <<>>, 0))

(***************************************************************************)
(* fast_expansion_sum, fast_expansion_sum_zeroelim                         *)
(***************************************************************************)
\* The state of a merge: the indices into e and f (enow = e[eindex] and
\* fnow = f[findex] were read when the index was set), Q and the output h.
Merge(eindex, findex, Q, h) ==
  [eindex |-> eindex, findex |-> findex, Q |-> Q, h |-> h]

\* h[hindex++] = hh, in the zero-eliminating variant only if hh != 0.0.
Store(h, hh, zeroelim) == IF zeroelim THEN Keep(h, hh) ELSE Append(h, hh)

\* The merge after a component of e, of f has been added, s = <<Qnew, hh>>.
TookE(m, s, zeroelim) == Merge(m.eindex + 1, m.findex, s[1], Store(m.h, s[2], zeroelim))

TookF(m, s, zeroelim) == Merge(m.eindex, m.findex + 1, s[1], Store(m.h, s[2], zeroelim))

\* The first component taken: Q = enow or Q = fnow.
merge_first(e, f) ==
  IF TakeE(Rd(e, 0), Rd(f, 0)) THEN Merge(1, 0, Rd(e, 0), <<>>)
                               ELSE Merge(0, 1, Rd(f, 0), <<>>)

\* The three while loops of fast_expansion_sum[_zeroelim], which add the
\* smaller of enow and fnow to Q while both arrays last and then what is
\* left of either.
RECURSIVE fast_sum_loops(_, _, _, _)
fast_sum_loops(e, f, m, zeroelim) ==
  IF m.eindex < Len(e) /\ (m.findex >= Len(f) \/ TakeE(Rd(e, m.eindex), Rd(f, m.findex)))
  THEN fast_sum_loops(e, f, TookE(m, Two_Sum(m.Q, Rd(e, m.eindex)), zeroelim), zeroelim)
  ELSE IF m.findex < Len(f)
  THEN fast_sum_loops(e, f, TookF(m, Two_Sum(m.Q, Rd(f, m.findex)), zeroelim), zeroelim)
  ELSE m

\* if ((eindex < elen) && (findex < flen)): the Fast_Two_Sum of the second
\* component taken with Q.
fast_sum_second(e, f, m, zeroelim) ==
  IF m.eindex < Len(e) /\ m.findex < Len(f)
  THEN IF TakeE(Rd(e, m.eindex), Rd(f, m.findex))
       THEN TookE(m, Fast_Two_Sum(Rd(e, m.eindex), m.Q), zeroelim)
       ELSE TookF(m, Fast_Two_Sum(Rd(f, m.findex), m.Q), zeroelim)
  ELSE m

\* h[hindex] = Q; return hindex + 1.
fast_sum_end(m) == Out(Append(m.h, m.Q), Len(m.h) + 1)

fast_expansion_sum(e, f) ==
  fast_sum_end(fast_sum_loops(e, f, fast_sum_second(e, f, merge_first(e, f), FALSE), FALSE))

\* if ((Q != 0.0) || (hindex == 0)) h[hindex++] = Q; return hindex.
fast_sum_zeroelim_end(m) == KeepLast(m.h, m.Q)

fast_expansion_sum_zeroelim(e, f) ==
  fast_sum_zeroelim_end(
    fast_sum_loops(e, f, fast_sum_second(e, f, merge_first(e, f), TRUE), TRUE))

(***************************************************************************)
(* linear_expansion_sum, linear_expansion_sum_zeroelim                     *)
(***************************************************************************)
\* (eindex < elen) && ((findex >= flen) || ((fnow > enow) == (fnow > -enow)))
LinTakeE(e, f, eindex, findex) ==
  eindex < Len(e) /\ (findex >= Len(f) \/ TakeE(Rd(e, eindex), Rd(f, findex)))

\* The state of a linear merge: the indices, Q, q and the output h.
LinMerge(eindex, findex, Q, q, h) ==
  [eindex |-> eindex, findex |-> findex, Q |-> Q, q |-> q, h |-> h]

\* g0 and the Fast_Two_Sum of the second component taken with g0.
linear_sum_second(e, f, m) ==
  IF LinTakeE(e, f, m.eindex, m.findex)
  THEN LET s == Fast_Two_Sum(Rd(e, m.eindex), m.Q)
       IN  LinMerge(m.eindex + 1, m.findex, s[1], s[2], <<>>)
  ELSE LET s == Fast_Two_Sum(Rd(f, m.findex), m.Q)
       IN  LinMerge(m.eindex, m.findex + 1, s[1], s[2], <<>>)

\* Two_Sum(Q, R, Q, q) after Fast_Two_Sum(enow or fnow, q, R, hh), r = <<R, hh>>.
linear_sum_step(m, takeE, r, s, zeroelim) ==
  LinMerge(IF takeE THEN m.eindex + 1 ELSE m.eindex,
           IF takeE THEN m.findex ELSE m.findex + 1,
           s[1], s[2], Store(m.h, r[2], zeroelim))

linear_sum_add(m, takeE, r, zeroelim) ==
  linear_sum_step(m, takeE, r, Two_Sum(m.Q, r[1]), zeroelim)

linear_sum_take(e, f, m, takeE, zeroelim) ==
  linear_sum_add(m, takeE,
                 IF takeE THEN Fast_Two_Sum(Rd(e, m.eindex), m.q)
                          ELSE Fast_Two_Sum(Rd(f, m.findex), m.q),
                 zeroelim)

\* The for loop, count running from 2 to elen + flen - 1.
RECURSIVE linear_sum_loop(_, _, _, _, _)
linear_sum_loop(e, f, m, count, zeroelim) ==
  IF count < Len(e) + Len(f)
  THEN linear_sum_loop(e, f,
         linear_sum_take(e, f, m, LinTakeE(e, f, m.eindex, m.findex), zeroelim),
         count + 1, zeroelim)
  ELSE m

\* h[hindex] = q; h[hindex + 1] = Q; return hindex + 2.
linear_sum_end(m) == Out(Append(Append(m.h, m.q), m.Q), Len(m.h) + 2)

linear_expansion_sum(e, f) ==
  linear_sum_end(linear_sum_loop(e, f, linear_sum_second(e, f, merge_first(e, f)), 2, FALSE))

\* if (q != 0) h[hindex++] = q; if ((Q != 0.0) || (hindex == 0)) h[hindex++] = Q.
linear_sum_zeroelim_end(m) == KeepLast(Keep(m.h, m.q), m.Q)

linear_expansion_sum_zeroelim(e, f) ==
  linear_sum_zeroelim_end(
    linear_sum_loop(e, f, linear_sum_second(e, f, merge_first(e, f)), 2, TRUE))

(***************************************************************************)
(* scale_expansion, scale_expansion_zeroelim                               *)
(***************************************************************************)
\* A faulty first product: both of its halves are stored.
scale_first_both(p, zeroelim) == <<p[1], Store(Store(<<>>, p[2], zeroelim), p[1], zeroelim)>>

\* <<Q, h>> after Two_Product_Presplit(e[0], b, bhi, blo, Q, h[0] or hh).
scale_first(p, zeroelim) == <<p[1], Store(<<>>, p[2], zeroelim)>>

\* <<Q, h>> after the second sum of the loop body, the first having given
\* s = <<sum, hh>>.
scale_sum_product(h, s, t, zeroelim) ==
  <<t[1], Store(Store(h, s[2], zeroelim), t[2], zeroelim)>>

\* Two_Sum(Q, product0, sum, hh), then Two_Sum(product1, sum, Q, hh) or, in
\* the zero-eliminating variant, Fast_Two_Sum(product1, sum, Q, hh).
scale_sum(h, product1, s, zeroelim) ==
  scale_sum_product(h, s,
                    IF zeroelim THEN Fast_Two_Sum(product1, s[1])
                                ELSE Two_Sum(product1, s[1]),
                    zeroelim)

\* The loop body for the product p = <<product1, product0>> of enow and b.
scale_pass(r, p, zeroelim) == scale_sum(r[2], p[1], Two_Sum(r[1], p[2]), zeroelim)

\* A faulty loop: no component of e after the first is multiplied.
scale_loop_none(e, b, eindex, r, zeroelim) == r

\* for (eindex = 1; eindex < elen; eindex++), r being <<Q, h>>.
RECURSIVE scale_loop(_, _, _, _, _)
scale_loop(e, b, eindex, r, zeroelim) ==
  IF eindex < Len(e)
  THEN scale_loop(e, b, eindex + 1,
                  scale_pass(r, Two_Product_Presplit(Rd(e, eindex), b), zeroelim),
                  zeroelim)
  ELSE r

\* h[hindex] = Q; return elen + elen.
scale_end(r, elen) == Out(Append(r[2], r[1]), elen + elen)

scale_expansion(e, b) ==
  scale_end(scale_loop(e, b, 1, scale_first(Two_Product_Presplit(Rd(e, 0), b), FALSE), FALSE),
            Len(e))

scale_zeroelim_end(r) == KeepLast(r[2], r[1])

scale_expansion_zeroelim(e, b) ==
  scale_zeroelim_end(
    scale_loop(e, b, 1, scale_first(Two_Product_Presplit(Rd(e, 0), b), TRUE), TRUE))

(***************************************************************************)
(* compress, estimate                                                      *)
(***************************************************************************)
\* The downward loop: <<h, bottom, Q>>.
RECURSIVE compress_down(_, _, _, _, _)
compress_down(e, eindex, bottom, Q, h) ==
  IF eindex >= 0
  THEN LET s == Fast_Two_Sum(Q, Rd(e, eindex))
       IN  IF s[2] # 0
           THEN compress_down(e, eindex - 1, bottom - 1, s[2], Put(h, bottom, s[1]))
           ELSE compress_down(e, eindex - 1, bottom, s[1], h)
  ELSE <<h, bottom, Q>>

\* The upward loop, then h[top] = Q; return top + 1.
RECURSIVE compress_up(_, _, _, _, _)
compress_up(h, hindex, elen, top, Q) ==
  IF hindex < elen
  THEN LET s == Fast_Two_Sum(Rd(h, hindex), Q)
       IN  IF s[2] # 0
           THEN compress_up(Put(h, top, s[2]), hindex + 1, elen, top + 1, s[1])
           ELSE compress_up(h, hindex + 1, elen, top, s[1])
  ELSE Out(Put(h, top, Q), top + 1)

\* The upward loop started from what the downward loop d has left.
compress_from(d, elen) == compress_up(d[1], d[2] + 1, elen, 0, d[3])

compress(e) ==
  compress_from(compress_down(e, Len(e) - 2, Len(e) - 1, Rd(e, Len(e) - 1), <<>>), Len(e))

RECURSIVE estimate_loop(_, _, _)
estimate_loop(e, eindex, Q) ==
  IF eindex < Len(e) THEN estimate_loop(e, eindex + 1, FAdd(Q, Rd(e, eindex))) ELSE Q

estimate(e) == estimate_loop(e, 1, Rd(e, 0))

(***************************************************************************)
(* orient2d, orient2dadapt.  A point is <<x, y>>; t is the coefficient     *)
(* table of the object.  A call gives a record: the value returned, the    *)
(* return statement taken (tier), detsum, the tails and the lengths of the *)
(* expansions built.  A value that later statements use several times is   *)
(* the parameter of a local operator that stands for those statements.     *)
(***************************************************************************)
Ret(ret, tier, detsum, tails, lens) ==
  [ret |-> ret, tier |-> tier, detsum |-> detsum, tails |-> tails, lens |-> lens]

\* A faulty test: every estimate is taken to be conclusive.
ConclusiveAlways(det, errbound) == TRUE

\* A faulty test: without || (-det >= errbound).
ConclusiveOneSided(det, errbound) == det >= errbound

\* (det >= errbound) || (-det >= errbound)
Conclusive(det, errbound) == det >= errbound \/ -det >= errbound

orient2dadapt(t, pa, pb, pc, detsum) ==
  LET acx == FSub(pa[1], pc[1])
      bcx == FSub(pb[1], pc[1])
      acy == FSub(pa[2], pc[2])
      bcy == FSub(pb[2], pc[2])
      acxtail == Two_Diff_Tail(pa[1], pc[1], acx)
      bcxtail == Two_Diff_Tail(pb[1], pc[1], bcx)
      acytail == Two_Diff_Tail(pa[2], pc[2], acy)
      bcytail == Two_Diff_Tail(pb[2], pc[2], bcy)
      tails == <<acxtail, bcytail, acytail, bcxtail>>
      \* return(D[Dlength - 1])
      Summed(C1, C2, D) ==
        Ret(Rd(D.h, D.len - 1), "D", detsum, tails, <<C1.len, C2.len, D.len>>)
      \* Dlength = fast_expansion_sum_zeroelim(C2length, C2, 4, u, D)
      SecondOrder(C1, C2) ==
        Summed(C1, C2,
               fast_expansion_sum_zeroelim(C2.h,
                 Diff_Of(Two_Product(acxtail, bcytail), Two_Product(acytail, bcxtail))))
      \* C2length = fast_expansion_sum_zeroelim(C1length, C1, 4, u, C2)
      FirstOrder(C1) ==
        SecondOrder(C1,
                    fast_expansion_sum_zeroelim(C1.h,
                      Diff_Of(Two_Product(acx, bcytail), Two_Product(acy, bcxtail))))
      \* the test of the corrected det against errbound, then
      \* C1length = fast_expansion_sum_zeroelim(4, B, 4, u, C1)
      Corrected(B, det, errbound) ==
        IF Conclusive(det, errbound) THEN Ret(det, "C", detsum, tails, <<>>)
        ELSE FirstOrder(fast_expansion_sum_zeroelim(B,
                          Diff_Of(Two_Product(acxtail, bcy), Two_Product(acytail, bcx))))
      \* the test of det = estimate(4, B) against ccwerrboundB * detsum, the
      \* test of the tails, errbound and the correction of det
      Estimated(B, det) ==
        IF Conclusive(det, FMul(t.ccwerrboundB, detsum))
        THEN Ret(det, "B", detsum, <<>>, <<>>)
        ELSE IF acxtail = 0 /\ acytail = 0 /\ bcxtail = 0 /\ bcytail = 0
        THEN Ret(det, "tails", detsum, tails, <<>>)
        ELSE Corrected(B,
               FAdd(det, FSub(FAdd(FMul(acx, bcytail), FMul(bcy, acxtail)),
                              FAdd(FMul(acy, bcxtail), FMul(bcx, acytail)))),
               FAdd(FMul(t.ccwerrboundC, detsum), FMul(t.resulterrbound, Absolute(det))))
      Built(B) == Estimated(B, estimate(B))
  IN  Built(Diff_Of(Two_Product(acx, bcy), Two_Product(acy, bcx)))

orient2d(t, pa, pb, pc) ==
  LET Tested(detleft, detright, det, detsum) ==
        IF detleft > 0 /\ detright <= 0 THEN Ret(det, "sign", 0, <<>>, <<>>)
        ELSE IF detleft < 0 /\ detright >= 0 THEN Ret(det, "sign", 0, <<>>, <<>>)
        ELSE IF detleft = 0 THEN Ret(det, "sign", 0, <<>>, <<>>)
        ELSE IF Conclusive(det, FMul(t.ccwerrboundA, detsum))
        THEN Ret(det, "A", detsum, <<>>, <<>>)
        ELSE orient2dadapt(t, pa, pb, pc, detsum)
      Multiplied(detleft, detright) ==
        Tested(detleft, detright, FSub(detleft, detright),
               IF detleft > 0 THEN FAdd(detleft, detright) ELSE FSub(-detleft, detright))
  IN  Multiplied(FMul(FSub(pa[1], pc[1]), FSub(pb[2], pc[2])),
                 FMul(FSub(pa[2], pc[2]), FSub(pb[1], pc[1])))

(***************************************************************************)
(* DifferenceOfProductsOfDifferences, AdaptDiffOfProdsOfDiffs              *)
(***************************************************************************)
AdaptDiffOfProdsOfDiffs(t, terma, termb, termc, termd, terme, termf, termg, termh, sum) ==
  LET diff1 == FSub(terma, termb)
      diff2 == FSub(termc, termd)
      diff3 == FSub(terme, termf)
      diff4 == FSub(termg, termh)
      diff1tail == Two_Diff_Tail(terma, termb, diff1)
      diff2tail == Two_Diff_Tail(termc, termd, diff2)
      diff3tail == Two_Diff_Tail(terme, termf, diff3)
      diff4tail == Two_Diff_Tail(termg, termh, diff4)
      tails == <<diff1tail, diff2tail, diff3tail, diff4tail>>
      \* return( D[Dlength - 1] )
      Summed(C1, C2, D) ==
        Ret(Rd(D.h, D.len - 1), "D", sum, tails, <<C1.len, C2.len, D.len>>)
      \* Dlength = fast_expansion_sum_zeroelim( C2length, C2, 4, u, D )
      SecondOrder(C1, C2) ==
        Summed(C1, C2,
               fast_expansion_sum_zeroelim(C2.h,
                 Diff_Of(Two_Product(diff1tail, diff2tail), Two_Product(diff3tail, diff4tail))))
      \* C2length = fast_expansion_sum_zeroelim( C1length, C1, 4, u, C2 )
      FirstOrder(C1) ==
        SecondOrder(C1,
                    fast_expansion_sum_zeroelim(C1.h,
                      Diff_Of(Two_Product(diff1, diff2tail), Two_Product(diff3, diff4tail))))
      \* the test of the corrected diff against errbound, then
      \* C1length = fast_expansion_sum_zeroelim( 4, B, 4, u, C1 )
      Corrected(B, diff, errbound) ==
        IF Conclusive(diff, errbound) THEN Ret(diff, "C", sum, tails, <<>>)
        ELSE FirstOrder(fast_expansion_sum_zeroelim(B,
                          Diff_Of(Two_Product(diff1tail, diff2), Two_Product(diff3tail, diff4))))
      \* the test of diff = estimate( 4, B ) against ccwerrboundB * sum, the
      \* test of the tails, errbound and the correction of diff
      Estimated(B, diff) ==
        IF Conclusive(diff, FMul(t.ccwerrboundB, sum))
        THEN Ret(diff, "B", sum, <<>>, <<>>)
        ELSE IF diff1tail = 0 /\ diff2tail = 0 /\ diff3tail = 0 /\ diff4tail = 0
        THEN Ret(diff, "tails", sum, tails, <<>>)
        ELSE Corrected(B,
               FAdd(diff, FSub(FAdd(FMul(diff1, diff2tail), FMul(diff2, diff1tail)),
                               FAdd(FMul(diff3, diff4tail), FMul(diff4, diff3tail)))),
               FAdd(FMul(t.ccwerrboundC, sum), FMul(t.resulterrbound, Absolute(diff))))
      Built(B) == Estimated(B, estimate(B))
  IN  Built(Diff_Of(Two_Product(diff1, diff2), Two_Product(diff3, diff4)))

\* A faulty DifferenceOfProductsOfDifferences: the first test is made against
\* the bound of incircle.
DifferenceOfProductsOfDifferencesOtherBound(t, a, b, c, d, e, f, g, h) ==
  LET Tested(left, right, diff, sum) ==
        IF left > 0 /\ right <= 0 THEN Ret(diff, "sign", 0, <<>>, <<>>)
        ELSE IF left < 0 /\ right >= 0 THEN Ret(diff, "sign", 0, <<>>, <<>>)
        ELSE IF left = 0 THEN Ret(diff, "sign", 0, <<>>, <<>>)
        ELSE IF Conclusive(diff, FMul(t.iccerrboundA, sum))
        THEN Ret(diff, "A", sum, <<>>, <<>>)
        ELSE AdaptDiffOfProdsOfDiffs(t, a, b, c, d, e, f, g, h, sum)
      Multiplied(left, right) ==
        Tested(left, right, FSub(left, right),
               IF left > 0 THEN FAdd(left, right) ELSE FSub(-left, right))
  IN  Multiplied(FMul(FSub(a, b), FSub(c, d)), FMul(FSub(e, f), FSub(g, h)))

DifferenceOfProductsOfDifferences(t, a, b, c, d, e, f, g, h) ==
  LET Tested(left, right, diff, sum) ==
        IF left > 0 /\ right <= 0 THEN Ret(diff, "sign", 0, <<>>, <<>>)
        ELSE IF left < 0 /\ right >= 0 THEN Ret(diff, "sign", 0, <<>>, <<>>)
        ELSE IF left = 0 THEN Ret(diff, "sign", 0, <<>>, <<>>)
        ELSE IF Conclusive(diff, FMul(t.ccwerrboundA, sum))
        THEN Ret(diff, "A", sum, <<>>, <<>>)
        ELSE AdaptDiffOfProdsOfDiffs(t, a, b, c, d, e, f, g, h, sum)
      Multiplied(left, right) ==
        Tested(left, right, FSub(left, right),
               IF left > 0 THEN FAdd(left, right) ELSE FSub(-left, right))
  IN  Multiplied(FMul(FSub(a, b), FSub(c, d)), FMul(FSub(e, f), FSub(g, h)))

(***************************************************************************)
(* incircleadapt is a long list of statements of ten kinds, applied to its *)
(* local variables.  The statements are written down as they stand in the  *)
(* source, one instruction each, and run over the locals:                  *)
(*   s     the scalars and lengths that have been assigned, by name        *)
(*   a     the arrays, by name, each up to the last slot written           *)
(*   p     the pointers finnow, finother, finswap: the array each names    *)
(*   room  for a length variable, the largest value its last assignment    *)
(*         can give: 2 * elen for a scaling, elen + flen for a sum         *)
(*   need  for an array, the largest room of a length stored in it         *)
(*   peak  for an array, the largest number of slots written into it       *)
(*   undef whether a statement has read what was never assigned            *)
(***************************************************************************)
NoLocals ==
  [s |-> <<>>, a |-> <<>>, p |-> <<>>, room |-> <<>>, need |-> <<>>, peak |-> <<>>,
   undef |-> FALSE]

Max(m, n) == IF m >= n THEN m ELSE n

Has(f, k) == k \in DOMAIN f

\* f with f[k] = v.
With(f, k, v) == (k :> v) @@ f

\* f with f[k] raised to v.
Raised(f, k, v) == With(f, k, IF Has(f, k) THEN Max(f[k], v) ELSE v)

\* The operands of a statement: a variable, a literal, -x and 2.0 * x.
V(x) == <<"V", x>>

K(n) == <<"K", n>>

Neg(x) == <<"Neg", x>>

Twice(x) == <<"Twice", x>>

Defined(L, o) == o[1] = "K" \/ Has(L.s, o[2])

Eval(L, o) ==
  CASE o[1] = "V" -> L.s[o[2]]
    [] o[1] = "K" -> o[2]
    [] o[1] = "Neg" -> -L.s[o[2]]
    [] o[1] = "Twice" -> FMul(Lit(2), L.s[o[2]])

\* The largest value the length o can have.
Room(L, o) == IF o[1] = "K" THEN o[2] ELSE L.room[o[2]]

\* The array x names: itself, or the one the pointer x is set to.
Resolve(L, x) == IF Has(L.p, x) THEN L.p[x] ELSE x

Old(L, x) == IF Has(L.a, x) THEN L.a[x] ELSE <<>>

\* The first n elements of x can be read.
Readable(L, x, n) ==
  /\ Has(L.a, Resolve(L, x))
  /\ n <= Len(L.a[Resolve(L, x)])
  /\ \A i \in 1..n : L.a[Resolve(L, x)][i] # Unwritten

\* The expansion of length n in x.
Arr(L, x, n) == SubSeq(L.a[Resolve(L, x)], 1, n)

\* The array old after the slots of h that were written are stored in it.
Overlay(old, h) ==
  [i \in 1..Max(Len(old), Len(h)) |->
     IF i <= Len(h) /\ (h[i] # Unwritten \/ i > Len(old)) THEN h[i] ELSE old[i]]

\* The instructions.
\*   Two_Product(a, b, x1, x0)
TwoProduct(a, b, x1, x0) == [op |-> "Two_Product", a |-> a, b |-> b, x1 |-> x1, x0 |-> x0]

\*   Square(a, x1, x0)
Squared(a, x1, x0) == [op |-> "Square", a |-> a, x1 |-> x1, x0 |-> x0]

\*   Two_Two_Diff(a1, a0, b1, b0, x3, x[2], x[1], x[0])
TwoTwoDiff(a1, a0, b1, b0, x3, x) ==
  [op |-> "Two_Two_Diff", a1 |-> a1, a0 |-> a0, b1 |-> b1, b0 |-> b0, x3 |-> x3, x |-> x]

\*   Two_Two_Sum(a1, a0, b1, b0, x3, x[2], x[1], x[0])
TwoTwoSum(a1, a0, b1, b0, x3, x) ==
  [op |-> "Two_Two_Sum", a1 |-> a1, a0 |-> a0, b1 |-> b1, b0 |-> b0, x3 |-> x3, x |-> x]

\*   xlen = scale_expansion_zeroelim(elen, e, b, x)
ScaleZeroelim(xlen, elen, e, b, x) ==
  [op |-> "scale_expansion_zeroelim", xlen |-> xlen, elen |-> elen, e |-> e, b |-> b, x |-> x]

\*   xlen = fast_expansion_sum_zeroelim(elen, e, flen, f, x)
SumZeroelim(xlen, elen, e, flen, f, x) ==
  [op |-> "fast_expansion_sum_zeroelim", xlen |-> xlen, elen |-> elen, e |-> e,
   flen |-> flen, f |-> f, x |-> x]

\*   x = b
Assign(x, b) == [op |-> "=", x |-> x, b |-> b]

\*   x[i] = b
AssignElem(x, i, b) == [op |-> "[]=", x |-> x, i |-> i, b |-> b]

\*   x = y, of pointers
Point(x, y) == [op |-> "*=", x |-> x, y |-> y]

\*   if ((c1 != 0.0) || (c2 != 0.0) ...) { then } else { else }
IfAny(c, then, else) == [op |-> "if", c |-> c, then |-> then, else |-> else]

\* The locals after a statement read what was never assigned.
Undefined(L) == [L EXCEPT !.undef = TRUE]

\* The locals after x1 and x0 are assigned the product p = <<x1, x0>>.
Paired(L, x1, x0, p) == [L EXCEPT !.s = With(With(@, x1, p[1]), x0, p[2])]

\* The locals after x3 and x[2], x[1], x[0] are assigned from r = <<x0, .., x3>>.
Quadrupled(L, x3, x, r) ==
  [L EXCEPT !.s = With(@, x3, r[4]),
            !.a = With(@, x, Overlay(Old(L, x), SubSeq(r, 1, 3))),
            !.need = Raised(@, x, 3),
            !.peak = Raised(@, x, 3)]

\* The locals after xlen = r.len with r.h stored in x, the length being at
\* most bound.
Stored(L, xlen, x, r, bound) ==
  [L EXCEPT !.s = With(@, xlen, r.len),
            !.a = With(@, x, Overlay(Old(L, x), r.h)),
            !.room = With(@, xlen, bound),
            !.need = Raised(@, x, bound),
            !.peak = Raised(@, x, Len(r.h))]

AllDefined(L, os) == \A k \in 1..Len(os) : Defined(L, os[k])

RECURSIVE Exec(_, _), Run(_, _, _)
\* The locals after statement i.
Exec(L, i) ==
  CASE i.op = "Two_Product" ->
         IF AllDefined(L, <<i.a, i.b>>)
         THEN Paired(L, i.x1, i.x0, Two_Product(Eval(L, i.a), Eval(L, i.b)))
         ELSE Undefined(L)
    [] i.op = "Square" ->
         IF Defined(L, i.a) THEN Paired(L, i.x1, i.x0, Square(Eval(L, i.a)))
         ELSE Undefined(L)
    [] i.op = "Two_Two_Diff" ->
         IF AllDefined(L, <<i.a1, i.a0, i.b1, i.b0>>)
         THEN Quadrupled(L, i.x3, Resolve(L, i.x),
                Two_Two_Diff(Eval(L, i.a1), Eval(L, i.a0), Eval(L, i.b1), Eval(L, i.b0)))
         ELSE Undefined(L)
    [] i.op = "Two_Two_Sum" ->
         IF AllDefined(L, <<i.a1, i.a0, i.b1, i.b0>>)
         THEN Quadrupled(L, i.x3, Resolve(L, i.x),
                Two_Two_Sum(Eval(L, i.a1), Eval(L, i.a0), Eval(L, i.b1), Eval(L, i.b0)))
         ELSE Undefined(L)
    [] i.op = "scale_expansion_zeroelim" ->
         IF AllDefined(L, <<i.elen, i.b>>) /\ Readable(L, i.e, Eval(L, i.elen))
         THEN Stored(L, i.xlen, Resolve(L, i.x),
                scale_expansion_zeroelim(Arr(L, i.e, Eval(L, i.elen)), Eval(L, i.b)),
                2 * Room(L, i.elen))
         ELSE Undefined(L)
    [] i.op = "fast_expansion_sum_zeroelim" ->
         IF /\ AllDefined(L, <<i.elen, i.flen>>)
            /\ Readable(L, i.e, Eval(L, i.elen))
            /\ Readable(L, i.f, Eval(L, i.flen))
         THEN Stored(L, i.xlen, Resolve(L, i.x),
                fast_expansion_sum_zeroelim(Arr(L, i.e, Eval(L, i.elen)),
                                            Arr(L, i.f, Eval(L, i.flen))),
                Room(L, i.elen) + Room(L, i.flen))
         ELSE Undefined(L)
    [] i.op = "=" ->
         IF Defined(L, i.b)
         THEN [L EXCEPT !.s = With(@, i.x, Eval(L, i.b)),
                        !.room = IF i.b[1] = "K" THEN With(@, i.x, i.b[2]) ELSE @]
         ELSE Undefined(L)
    [] i.op = "[]=" ->
         IF Defined(L, i.b)
         THEN [L EXCEPT !.a = With(@, Resolve(L, i.x),
                                   Put(Old(L, Resolve(L, i.x)), i.i, Eval(L, i.b))),
                        !.need = Raised(@, Resolve(L, i.x), i.i + 1),
                        !.peak = Raised(@, Resolve(L, i.x), i.i + 1)]
         ELSE Undefined(L)
    [] i.op = "*=" -> [L EXCEPT !.p = With(@, i.x, Resolve(L, i.y))]
    [] i.op = "if" ->
         IF \E k \in 1..Len(i.c) : L.s[i.c[k]] # 0
         THEN Run(L, i.then, 1) ELSE Run(L, i.else, 1)

\* The locals after the statements prog[k], prog[k + 1], ...; what follows a
\* read of something never assigned is not run.
Run(L, prog, k) ==
  IF k > Len(prog) \/ L.undef THEN L ELSE Run(Exec(L, prog[k]), prog, k + 1)

\* Faulty declarations: temp48 has the length of temp32a.
CapacityUndersized ==
  [x \in {"temp48"} |-> 32] @@
  [x \in {"bc", "ca", "ab", "aa", "bb", "cc", "u", "v", "abtt", "bctt", "catt"} |-> 4] @@
  [x \in {"temp32a", "temp32b", "adet", "bdet", "cdet"} |-> 32] @@
  [x \in {"abdet", "temp64"} |-> 64] @@
  [x \in {"fin1", "fin2"} |-> 1152] @@
  [x \in {"axxbc", "ayybc", "bxxca", "byyca", "cxxab", "cyyab", "temp16a", "temp16b",
          "temp16c", "axtbct", "aytbct", "bxtcat", "bytcat", "cxtabt", "cytabt"} |-> 16] @@
  [x \in {"axbc", "aybc", "bxca", "byca", "cxab", "cyab", "temp8", "axtbb", "axtcc",
          "aytbb", "aytcc", "bxtaa", "bxtcc", "bytaa", "bytcc", "cxtaa", "cxtbb", "cytaa",
          "cytbb", "axtbc", "aytbc", "bxtca", "bytca", "cxtab", "cytab", "axtbctt",
          "aytbctt", "bxtcatt", "bytcatt", "cxtabtt", "cytabtt", "abt", "bct", "cat"} |-> 8]

\* The arrays incircleadapt declares, with their sizes.
Capacity ==
  [ bc |-> 4, ca |-> 4, ab |-> 4, axbc |-> 8, axxbc |-> 16, aybc |-> 8,
    ayybc |-> 16, adet |-> 32, bxca |-> 8, bxxca |-> 16, byca |-> 8,
    byyca |-> 16, bdet |-> 32, cxab |-> 8, cxxab |-> 16, cyab |-> 8,
    cyyab |-> 16, cdet |-> 32, abdet |-> 64, fin1 |-> 1152, fin2 |-> 1152,
    aa |-> 4, bb |-> 4, cc |-> 4, u |-> 4, v |-> 4, temp8 |-> 8,
    temp16a |-> 16, temp16b |-> 16, temp16c |-> 16, temp32a |-> 32,
    temp32b |-> 32, temp48 |-> 48, temp64 |-> 64, axtbb |-> 8, axtcc |-> 8,
    aytbb |-> 8, aytcc |-> 8, bxtaa |-> 8, bxtcc |-> 8, bytaa |-> 8,
    bytcc |-> 8, cxtaa |-> 8, cxtbb |-> 8, cytaa |-> 8, cytbb |-> 8,
    axtbc |-> 8, aytbc |-> 8, bxtca |-> 8, bytca |-> 8, cxtab |-> 8,
    cytab |-> 8, axtbct |-> 16, aytbct |-> 16, bxtcat |-> 16, bytcat |-> 16,
    cxtabt |-> 16, cytabt |-> 16, axtbctt |-> 8, aytbctt |-> 8,
    bxtcatt |-> 8, bytcatt |-> 8, cxtabtt |-> 8, cytabtt |-> 8, abt |-> 8,
    bct |-> 8, cat |-> 8, abtt |-> 4, bctt |-> 4, catt |-> 4 ]

\* The statements that build the expansion of the determinant from the
\* rounded differences.
incircleadapt_build ==
  << TwoProduct(V("bdx"), V("cdy"), "bdxcdy1", "bdxcdy0"),
     TwoProduct(V("cdx"), V("bdy"), "cdxbdy1", "cdxbdy0"),
     TwoTwoDiff(V("bdxcdy1"), V("bdxcdy0"), V("cdxbdy1"), V("cdxbdy0"), "bc3", "bc"),
     AssignElem("bc", 3, V("bc3")),
     ScaleZeroelim("axbclen", K(4), "bc", V("adx"), "axbc"),
     ScaleZeroelim("axxbclen", V("axbclen"), "axbc", V("adx"), "axxbc"),
     ScaleZeroelim("aybclen", K(4), "bc", V("ady"), "aybc"),
     ScaleZeroelim("ayybclen", V("aybclen"), "aybc", V("ady"), "ayybc"),
     SumZeroelim("alen", V("axxbclen"), "axxbc", V("ayybclen"), "ayybc", "adet"),
     TwoProduct(V("cdx"), V("ady"), "cdxady1", "cdxady0"),
     TwoProduct(V("adx"), V("cdy"), "adxcdy1", "adxcdy0"),
     TwoTwoDiff(V("cdxady1"), V("cdxady0"), V("adxcdy1"), V("adxcdy0"), "ca3", "ca"),
     AssignElem("ca", 3, V("ca3")),
     ScaleZeroelim("bxcalen", K(4), "ca", V("bdx"), "bxca"),
     ScaleZeroelim("bxxcalen", V("bxcalen"), "bxca", V("bdx"), "bxxca"),
     ScaleZeroelim("bycalen", K(4), "ca", V("bdy"), "byca"),
     ScaleZeroelim("byycalen", V("bycalen"), "byca", V("bdy"), "byyca"),
     SumZeroelim("blen", V("bxxcalen"), "bxxca", V("byycalen"), "byyca", "bdet"),
     TwoProduct(V("adx"), V("bdy"), "adxbdy1", "adxbdy0"),
     TwoProduct(V("bdx"), V("ady"), "bdxady1", "bdxady0"),
     TwoTwoDiff(V("adxbdy1"), V("adxbdy0"), V("bdxady1"), V("bdxady0"), "ab3", "ab"),
     AssignElem("ab", 3, V("ab3")),
     ScaleZeroelim("cxablen", K(4), "ab", V("cdx"), "cxab"),
     ScaleZeroelim("cxxablen", V("cxablen"), "cxab", V("cdx"), "cxxab"),
     ScaleZeroelim("cyablen", K(4), "ab", V("cdy"), "cyab"),
     ScaleZeroelim("cyyablen", V("cyablen"), "cyab", V("cdy"), "cyyab"),
     SumZeroelim("clen", V("cxxablen"), "cxxab", V("cyyablen"), "cyyab", "cdet"),
     SumZeroelim("ablen", V("alen"), "adet", V("blen"), "bdet", "abdet"),
     SumZeroelim("finlength", V("ablen"), "abdet", V("clen"), "cdet", "fin1") >>

\* The same statements with aa computed only when a tail of b is nonzero.
incircleadapt_squares_b_only ==
  << Point("finnow", "fin1"),
     Point("finother", "fin2"),
     IfAny(<<"bdxtail", "bdytail">>,
       << Squared(V("adx"), "adxadx1", "adxadx0"),
          Squared(V("ady"), "adyady1", "adyady0"),
          TwoTwoSum(V("adxadx1"), V("adxadx0"), V("adyady1"), V("adyady0"), "aa3", "aa"),
          AssignElem("aa", 3, V("aa3")) >>,
       <<>>),
     IfAny(<<"cdxtail", "cdytail", "adxtail", "adytail">>,
       << Squared(V("bdx"), "bdxbdx1", "bdxbdx0"),
          Squared(V("bdy"), "bdybdy1", "bdybdy0"),
          TwoTwoSum(V("bdxbdx1"), V("bdxbdx0"), V("bdybdy1"), V("bdybdy0"), "bb3", "bb"),
          AssignElem("bb", 3, V("bb3")) >>,
       <<>>),
     IfAny(<<"adxtail", "adytail", "bdxtail", "bdytail">>,
       << Squared(V("cdx"), "cdxcdx1", "cdxcdx0"),
          Squared(V("cdy"), "cdycdy1", "cdycdy0"),
          TwoTwoSum(V("cdxcdx1"), V("cdxcdx0"), V("cdycdy1"), V("cdycdy0"), "cc3", "cc"),
          AssignElem("cc", 3, V("cc3")) >>,
       <<>>) >>

\* finnow, finother and the squares aa, bb, cc.
incircleadapt_squares ==
  << Point("finnow", "fin1"),
     Point("finother", "fin2"),
     IfAny(<<"bdxtail", "bdytail", "cdxtail", "cdytail">>,
       << Squared(V("adx"), "adxadx1", "adxadx0"),
          Squared(V("ady"), "adyady1", "adyady0"),
          TwoTwoSum(V("adxadx1"), V("adxadx0"), V("adyady1"), V("adyady0"), "aa3", "aa"),
          AssignElem("aa", 3, V("aa3")) >>,
       <<>>),
     IfAny(<<"cdxtail", "cdytail", "adxtail", "adytail">>,
       << Squared(V("bdx"), "bdxbdx1", "bdxbdx0"),
          Squared(V("bdy"), "bdybdy1", "bdybdy0"),
          TwoTwoSum(V("bdxbdx1"), V("bdxbdx0"), V("bdybdy1"), V("bdybdy0"), "bb3", "bb"),
          AssignElem("bb", 3, V("bb3")) >>,
       <<>>),
     IfAny(<<"adxtail", "adytail", "bdxtail", "bdytail">>,
       << Squared(V("cdx"), "cdxcdx1", "cdxcdx0"),
          Squared(V("cdy"), "cdycdy1", "cdycdy0"),
          TwoTwoSum(V("cdxcdx1"), V("cdxcdx0"), V("cdycdy1"), V("cdycdy0"), "cc3", "cc"),
          AssignElem("cc", 3, V("cc3")) >>,
       <<>>) >>

\* The same statements with finother set from finnow in every swap.
incircleadapt_first_no_swap ==
  << IfAny(<<"adxtail">>,
       << ScaleZeroelim("axtbclen", K(4), "bc", V("adxtail"), "axtbc"),
          ScaleZeroelim("temp16alen", V("axtbclen"), "axtbc", Twice("adx"), "temp16a"),
          ScaleZeroelim("axtcclen", K(4), "cc", V("adxtail"), "axtcc"),
          ScaleZeroelim("temp16blen", V("axtcclen"), "axtcc", V("bdy"), "temp16b"),
          ScaleZeroelim("axtbblen", K(4), "bb", V("adxtail"), "axtbb"),
          ScaleZeroelim("temp16clen", V("axtbblen"), "axtbb", Neg("cdy"), "temp16c"),
          SumZeroelim("temp32alen", V("temp16alen"), "temp16a", V("temp16blen"), "temp16b", "temp32a"),
          SumZeroelim("temp48len", V("temp16clen"), "temp16c", V("temp32alen"), "temp32a", "temp48"),
          SumZeroelim("finlength", V("finlength"), "finnow", V("temp48len"), "temp48", "finother"),
          Point("finswap", "finnow"),
          Point("finnow", "finother"),
          Point("finother", "finnow") >>,
       <<>>),
     IfAny(<<"adytail">>,
       << ScaleZeroelim("aytbclen", K(4), "bc", V("adytail"), "aytbc"),
          ScaleZeroelim("temp16alen", V("aytbclen"), "aytbc", Twice("ady"), "temp16a"),
          ScaleZeroelim("aytbblen", K(4), "bb", V("adytail"), "aytbb"),
          ScaleZeroelim("temp16blen", V("aytbblen"), "aytbb", V("cdx"), "temp16b"),
          ScaleZeroelim("aytcclen", K(4), "cc", V("adytail"), "aytcc"),
          ScaleZeroelim("temp16clen", V("aytcclen"), "aytcc", Neg("bdx"), "temp16c"),
          SumZeroelim("temp32alen", V("temp16alen"), "temp16a", V("temp16blen"), "temp16b", "temp32a"),
          SumZeroelim("temp48len", V("temp16clen"), "temp16c", V("temp32alen"), "temp32a", "temp48"),
          SumZeroelim("finlength", V("finlength"), "finnow", V("temp48len"), "temp48", "finother"),
          Point("finswap", "finnow"),
          Point("finnow", "finother"),
          Point("finother", "finnow") >>,
       <<>>),
     IfAny(<<"bdxtail">>,
       << ScaleZeroelim("bxtcalen", K(4), "ca", V("bdxtail"), "bxtca"),
          ScaleZeroelim("temp16alen", V("bxtcalen"), "bxtca", Twice("bdx"), "temp16a"),
          ScaleZeroelim("bxtaalen", K(4), "aa", V("bdxtail"), "bxtaa"),
          ScaleZeroelim("temp16blen", V("bxtaalen"), "bxtaa", V("cdy"), "temp16b"),
          ScaleZeroelim("bxtcclen", K(4), "cc", V("bdxtail"), "bxtcc"),
          ScaleZeroelim("temp16clen", V("bxtcclen"), "bxtcc", Neg("ady"), "temp16c"),
          SumZeroelim("temp32alen", V("temp16alen"), "temp16a", V("temp16blen"), "temp16b", "temp32a"),
          SumZeroelim("temp48len", V("temp16clen"), "temp16c", V("temp32alen"), "temp32a", "temp48"),
          SumZeroelim("finlength", V("finlength"), "finnow", V("temp48len"), "temp48", "finother"),
          Point("finswap", "finnow"),
          Point("finnow", "finother"),
          Point("finother", "finnow") >>,
       <<>>),
     IfAny(<<"bdytail">>,
       << ScaleZeroelim("bytcalen", K(4), "ca", V("bdytail"), "bytca"),
          ScaleZeroelim("temp16alen", V("bytcalen"), "bytca", Twice("bdy"), "temp16a"),
          ScaleZeroelim("bytcclen", K(4), "cc", V("bdytail"), "bytcc"),
          ScaleZeroelim("temp16blen", V("bytcclen"), "bytcc", V("adx"), "temp16b"),
          ScaleZeroelim("bytaalen", K(4), "aa", V("bdytail"), "bytaa"),
          ScaleZeroelim("temp16clen", V("bytaalen"), "bytaa", Neg("cdx"), "temp16c"),
          SumZeroelim("temp32alen", V("temp16alen"), "temp16a", V("temp16blen"), "temp16b", "temp32a"),
          SumZeroelim("temp48len", V("temp16clen"), "temp16c", V("temp32alen"), "temp32a", "temp48"),
          SumZeroelim("finlength", V("finlength"), "finnow", V("temp48len"), "temp48", "finother"),
          Point("finswap", "finnow"),
          Point("finnow", "finother"),
          Point("finother", "finnow") >>,
       <<>>),
     IfAny(<<"cdxtail">>,
       << ScaleZeroelim("cxtablen", K(4), "ab", V("cdxtail"), "cxtab"),
          ScaleZeroelim("temp16alen", V("cxtablen"), "cxtab", Twice("cdx"), "temp16a"),
          ScaleZeroelim("cxtbblen", K(4), "bb", V("cdxtail"), "cxtbb"),
          ScaleZeroelim("temp16blen", V("cxtbblen"), "cxtbb", V("ady"), "temp16b"),
          ScaleZeroelim("cxtaalen", K(4), "aa", V("cdxtail"), "cxtaa"),
          ScaleZeroelim("temp16clen", V("cxtaalen"), "cxtaa", Neg("bdy"), "temp16c"),
          SumZeroelim("temp32alen", V("temp16alen"), "temp16a", V("temp16blen"), "temp16b", "temp32a"),
          SumZeroelim("temp48len", V("temp16clen"), "temp16c", V("temp32alen"), "temp32a", "temp48"),
          SumZeroelim("finlength", V("finlength"), "finnow", V("temp48len"), "temp48", "finother"),
          Point("finswap", "finnow"),
          Point("finnow", "finother"),
          Point("finother", "finnow") >>,
       <<>>),
     IfAny(<<"cdytail">>,
       << ScaleZeroelim("cytablen", K(4), "ab", V("cdytail"), "cytab"),
          ScaleZeroelim("temp16alen", V("cytablen"), "cytab", Twice("cdy"), "temp16a"),
          ScaleZeroelim("cytaalen", K(4), "aa", V("cdytail"), "cytaa"),
          ScaleZeroelim("temp16blen", V("cytaalen"), "cytaa", V("bdx"), "temp16b"),
          ScaleZeroelim("cytbblen", K(4), "bb", V("cdytail"), "cytbb"),
          ScaleZeroelim("temp16clen", V("cytbblen"), "cytbb", Neg("adx"), "temp16c"),
          SumZeroelim("temp32alen", V("temp16alen"), "temp16a", V("temp16blen"), "temp16b", "temp32a"),
          SumZeroelim("temp48len", V("temp16clen"), "temp16c", V("temp32alen"), "temp32a", "temp48"),
          SumZeroelim("finlength", V("finlength"), "finnow", V("temp48len"), "temp48", "finother"),
          Point("finswap", "finnow"),
          Point("finnow", "finother"),
          Point("finother", "finnow") >>,
       <<>>) >>

\* The terms of first order in one tail each.
incircleadapt_first ==
  << IfAny(<<"adxtail">>,
       << ScaleZeroelim("axtbclen", K(4), "bc", V("adxtail"), "axtbc"),
          ScaleZeroelim("temp16alen", V("axtbclen"), "axtbc", Twice("adx"), "temp16a"),
          ScaleZeroelim("axtcclen", K(4), "cc", V("adxtail"), "axtcc"),
          ScaleZeroelim("temp16blen", V("axtcclen"), "axtcc", V("bdy"), "temp16b"),
          ScaleZeroelim("axtbblen", K(4), "bb", V("adxtail"), "axtbb"),
          ScaleZeroelim("temp16clen", V("axtbblen"), "axtbb", Neg("cdy"), "temp16c"),
          SumZeroelim("temp32alen", V("temp16alen"), "temp16a", V("temp16blen"), "temp16b", "temp32a"),
          SumZeroelim("temp48len", V("temp16clen"), "temp16c", V("temp32alen"), "temp32a", "temp48"),
          SumZeroelim("finlength", V("finlength"), "finnow", V("temp48len"), "temp48", "finother"),
          Point("finswap", "finnow"),
          Point("finnow", "finother"),
          Point("finother", "finswap") >>,
       <<>>),
     IfAny(<<"adytail">>,
       << ScaleZeroelim("aytbclen", K(4), "bc", V("adytail"), "aytbc"),
          ScaleZeroelim("temp16alen", V("aytbclen"), "aytbc", Twice("ady"), "temp16a"),
          ScaleZeroelim("aytbblen", K(4), "bb", V("adytail"), "aytbb"),
          ScaleZeroelim("temp16blen", V("aytbblen"), "aytbb", V("cdx"), "temp16b"),
          ScaleZeroelim("aytcclen", K(4), "cc", V("adytail"), "aytcc"),
          ScaleZeroelim("temp16clen", V("aytcclen"), "aytcc", Neg("bdx"), "temp16c"),
          SumZeroelim("temp32alen", V("temp16alen"), "temp16a", V("temp16blen"), "temp16b", "temp32a"),
          SumZeroelim("temp48len", V("temp16clen"), "temp16c", V("temp32alen"), "temp32a", "temp48"),
          SumZeroelim("finlength", V("finlength"), "finnow", V("temp48len"), "temp48", "finother"),
          Point("finswap", "finnow"),
          Point("finnow", "finother"),
          Point("finother", "finswap") >>,
       <<>>),
     IfAny(<<"bdxtail">>,
       << ScaleZeroelim("bxtcalen", K(4), "ca", V("bdxtail"), "bxtca"),
          ScaleZeroelim("temp16alen", V("bxtcalen"), "bxtca", Twice("bdx"), "temp16a"),
          ScaleZeroelim("bxtaalen", K(4), "aa", V("bdxtail"), "bxtaa"),
          ScaleZeroelim("temp16blen", V("bxtaalen"), "bxtaa", V("cdy"), "temp16b"),
          ScaleZeroelim("bxtcclen", K(4), "cc", V("bdxtail"), "bxtcc"),
          ScaleZeroelim("temp16clen", V("bxtcclen"), "bxtcc", Neg("ady"), "temp16c"),
          SumZeroelim("temp32alen", V("temp16alen"), "temp16a", V("temp16blen"), "temp16b", "temp32a"),
          SumZeroelim("temp48len", V("temp16clen"), "temp16c", V("temp32alen"), "temp32a", "temp48"),
          SumZeroelim("finlength", V("finlength"), "finnow", V("temp48len"), "temp48", "finother"),
          Point("finswap", "finnow"),
          Point("finnow", "finother"),
          Point("finother", "finswap") >>,
       <<>>),
     IfAny(<<"bdytail">>,
       << ScaleZeroelim("bytcalen", K(4), "ca", V("bdytail"), "bytca"),
          ScaleZeroelim("temp16alen", V("bytcalen"), "bytca", Twice("bdy"), "temp16a"),
          ScaleZeroelim("bytcclen", K(4), "cc", V("bdytail"), "bytcc"),
          ScaleZeroelim("temp16blen", V("bytcclen"), "bytcc", V("adx"), "temp16b"),
          ScaleZeroelim("bytaalen", K(4), "aa", V("bdytail"), "bytaa"),
          ScaleZeroelim("temp16clen", V("bytaalen"), "bytaa", Neg("cdx"), "temp16c"),
          SumZeroelim("temp32alen", V("temp16alen"), "temp16a", V("temp16blen"), "temp16b", "temp32a"),
          SumZeroelim("temp48len", V("temp16clen"), "temp16c", V("temp32alen"), "temp32a", "temp48"),
          SumZeroelim("finlength", V("finlength"), "finnow", V("temp48len"), "temp48", "finother"),
          Point("finswap", "finnow"),
          Point("finnow", "finother"),
          Point("finother", "finswap") >>,
       <<>>),
     IfAny(<<"cdxtail">>,
       << ScaleZeroelim("cxtablen", K(4), "ab", V("cdxtail"), "cxtab"),
          ScaleZeroelim("temp16alen", V("cxtablen"), "cxtab", Twice("cdx"), "temp16a"),
          ScaleZeroelim("cxtbblen", K(4), "bb", V("cdxtail"), "cxtbb"),
          ScaleZeroelim("temp16blen", V("cxtbblen"), "cxtbb", V("ady"), "temp16b"),
          ScaleZeroelim("cxtaalen", K(4), "aa", V("cdxtail"), "cxtaa"),
          ScaleZeroelim("temp16clen", V("cxtaalen"), "cxtaa", Neg("bdy"), "temp16c"),
          SumZeroelim("temp32alen", V("temp16alen"), "temp16a", V("temp16blen"), "temp16b", "temp32a"),
          SumZeroelim("temp48len", V("temp16clen"), "temp16c", V("temp32alen"), "temp32a", "temp48"),
          SumZeroelim("finlength", V("finlength"), "finnow", V("temp48len"), "temp48", "finother"),
          Point("finswap", "finnow"),
          Point("finnow", "finother"),
          Point("finother", "finswap") >>,
       <<>>),
     IfAny(<<"cdytail">>,
       << ScaleZeroelim("cytablen", K(4), "ab", V("cdytail"), "cytab"),
          ScaleZeroelim("temp16alen", V("cytablen"), "cytab", Twice("cdy"), "temp16a"),
          ScaleZeroelim("cytaalen", K(4), "aa", V("cdytail"), "cytaa"),
          ScaleZeroelim("temp16blen", V("cytaalen"), "cytaa", V("bdx"), "temp16b"),
          ScaleZeroelim("cytbblen", K(4), "bb", V("cdytail"), "cytbb"),
          ScaleZeroelim("temp16clen", V("cytbblen"), "cytbb", Neg("adx"), "temp16c"),
          SumZeroelim("temp32alen", V("temp16alen"), "temp16a", V("temp16blen"), "temp16b", "temp32a"),
          SumZeroelim("temp48len", V("temp16clen"), "temp16c", V("temp32alen"), "temp32a", "temp48"),
          SumZeroelim("finlength", V("finlength"), "finnow", V("temp48len"), "temp48", "finother"),
          Point("finswap", "finnow"),
          Point("finnow", "finother"),
          Point("finother", "finswap") >>,
       <<>>) >>

\* The terms with the tails of pa.
incircleadapt_second_a ==
  << IfAny(<<"adxtail", "adytail">>,
       << IfAny(<<"bdxtail", "bdytail", "cdxtail", "cdytail">>,
            << TwoProduct(V("bdxtail"), V("cdy"), "ti1", "ti0"),
               TwoProduct(V("bdx"), V("cdytail"), "tj1", "tj0"),
               TwoTwoSum(V("ti1"), V("ti0"), V("tj1"), V("tj0"), "u3", "u"),
               AssignElem("u", 3, V("u3")),
               Assign("negate", Neg("bdy")),
               TwoProduct(V("cdxtail"), V("negate"), "ti1", "ti0"),
               Assign("negate", Neg("bdytail")),
               TwoProduct(V("cdx"), V("negate"), "tj1", "tj0"),
               TwoTwoSum(V("ti1"), V("ti0"), V("tj1"), V("tj0"), "v3", "v"),
               AssignElem("v", 3, V("v3")),
               SumZeroelim("bctlen", K(4), "u", K(4), "v", "bct"),
               TwoProduct(V("bdxtail"), V("cdytail"), "ti1", "ti0"),
               TwoProduct(V("cdxtail"), V("bdytail"), "tj1", "tj0"),
               TwoTwoDiff(V("ti1"), V("ti0"), V("tj1"), V("tj0"), "bctt3", "bctt"),
               AssignElem("bctt", 3, V("bctt3")),
               Assign("bcttlen", K(4)) >>,
            << AssignElem("bct", 0, K(0)),
               Assign("bctlen", K(1)),
               AssignElem("bctt", 0, K(0)),
               Assign("bcttlen", K(1)) >>),
          IfAny(<<"adxtail">>,
            << ScaleZeroelim("temp16alen", V("axtbclen"), "axtbc", V("adxtail"), "temp16a"),
               ScaleZeroelim("axtbctlen", V("bctlen"), "bct", V("adxtail"), "axtbct"),
               ScaleZeroelim("temp32alen", V("axtbctlen"), "axtbct", Twice("adx"), "temp32a"),
               SumZeroelim("temp48len", V("temp16alen"), "temp16a", V("temp32alen"), "temp32a", "temp48"),
               SumZeroelim("finlength", V("finlength"), "finnow", V("temp48len"), "temp48", "finother"),
               Point("finswap", "finnow"),
               Point("finnow", "finother"),
               Point("finother", "finswap"),
               IfAny(<<"bdytail">>,
                 << ScaleZeroelim("temp8len", K(4), "cc", V("adxtail"), "temp8"),
                    ScaleZeroelim("temp16alen", V("temp8len"), "temp8", V("bdytail"), "temp16a"),
                    SumZeroelim("finlength", V("finlength"), "finnow", V("temp16alen"), "temp16a", "finother"),
                    Point("finswap", "finnow"),
                    Point("finnow", "finother"),
                    Point("finother", "finswap") >>,
                 <<>>),
               IfAny(<<"cdytail">>,
                 << ScaleZeroelim("temp8len", K(4), "bb", Neg("adxtail"), "temp8"),
                    ScaleZeroelim("temp16alen", V("temp8len"), "temp8", V("cdytail"), "temp16a"),
                    SumZeroelim("finlength", V("finlength"), "finnow", V("temp16alen"), "temp16a", "finother"),
                    Point("finswap", "finnow"),
                    Point("finnow", "finother"),
                    Point("finother", "finswap") >>,
                 <<>>),
               ScaleZeroelim("temp32alen", V("axtbctlen"), "axtbct", V("adxtail"), "temp32a"),
               ScaleZeroelim("axtbcttlen", V("bcttlen"), "bctt", V("adxtail"), "axtbctt"),
               ScaleZeroelim("temp16alen", V("axtbcttlen"), "axtbctt", Twice("adx"), "temp16a"),
               ScaleZeroelim("temp16blen", V("axtbcttlen"), "axtbctt", V("adxtail"), "temp16b"),
               SumZeroelim("temp32blen", V("temp16alen"), "temp16a", V("temp16blen"), "temp16b", "temp32b"),
               SumZeroelim("temp64len", V("temp32alen"), "temp32a", V("temp32blen"), "temp32b", "temp64"),
               SumZeroelim("finlength", V("finlength"), "finnow", V("temp64len"), "temp64", "finother"),
               Point("finswap", "finnow"),
               Point("finnow", "finother"),
               Point("finother", "finswap") >>,
            <<>>),
          IfAny(<<"adytail">>,
            << ScaleZeroelim("temp16alen", V("aytbclen"), "aytbc", V("adytail"), "temp16a"),
               ScaleZeroelim("aytbctlen", V("bctlen"), "bct", V("adytail"), "aytbct"),
               ScaleZeroelim("temp32alen", V("aytbctlen"), "aytbct", Twice("ady"), "temp32a"),
               SumZeroelim("temp48len", V("temp16alen"), "temp16a", V("temp32alen"), "temp32a", "temp48"),
               SumZeroelim("finlength", V("finlength"), "finnow", V("temp48len"), "temp48", "finother"),
               Point("finswap", "finnow"),
               Point("finnow", "finother"),
               Point("finother", "finswap"),
               ScaleZeroelim("temp32alen", V("aytbctlen"), "aytbct", V("adytail"), "temp32a"),
               ScaleZeroelim("aytbcttlen", V("bcttlen"), "bctt", V("adytail"), "aytbctt"),
               ScaleZeroelim("temp16alen", V("aytbcttlen"), "aytbctt", Twice("ady"), "temp16a"),
               ScaleZeroelim("temp16blen", V("aytbcttlen"), "aytbctt", V("adytail"), "temp16b"),
               SumZeroelim("temp32blen", V("temp16alen"), "temp16a", V("temp16blen"), "temp16b", "temp32b"),
               SumZeroelim("temp64len", V("temp32alen"), "temp32a", V("temp32blen"), "temp32b", "temp64"),
               SumZeroelim("finlength", V("finlength"), "finnow", V("temp64len"), "temp64", "finother"),
               Point("finswap", "finnow"),
               Point("finnow", "finother"),
               Point("finother", "finswap") >>,
            <<>>) >>,
       <<>>) >>

\* The terms with the tails of pb.
incircleadapt_second_b ==
  << IfAny(<<"bdxtail", "bdytail">>,
       << IfAny(<<"cdxtail", "cdytail", "adxtail", "adytail">>,
            << TwoProduct(V("cdxtail"), V("ady"), "ti1", "ti0"),
               TwoProduct(V("cdx"), V("adytail"), "tj1", "tj0"),
               TwoTwoSum(V("ti1"), V("ti0"), V("tj1"), V("tj0"), "u3", "u"),
               AssignElem("u", 3, V("u3")),
               Assign("negate", Neg("cdy")),
               TwoProduct(V("adxtail"), V("negate"), "ti1", "ti0"),
               Assign("negate", Neg("cdytail")),
               TwoProduct(V("adx"), V("negate"), "tj1", "tj0"),
               TwoTwoSum(V("ti1"), V("ti0"), V("tj1"), V("tj0"), "v3", "v"),
               AssignElem("v", 3, V("v3")),
               SumZeroelim("catlen", K(4), "u", K(4), "v", "cat"),
               TwoProduct(V("cdxtail"), V("adytail"), "ti1", "ti0"),
               TwoProduct(V("adxtail"), V("cdytail"), "tj1", "tj0"),
               TwoTwoDiff(V("ti1"), V("ti0"), V("tj1"), V("tj0"), "catt3", "catt"),
               AssignElem("catt", 3, V("catt3")),
               Assign("cattlen", K(4)) >>,
            << AssignElem("cat", 0, K(0)),
               Assign("catlen", K(1)),
               AssignElem("catt", 0, K(0)),
               Assign("cattlen", K(1)) >>),
          IfAny(<<"bdxtail">>,
            << ScaleZeroelim("temp16alen", V("bxtcalen"), "bxtca", V("bdxtail"), "temp16a"),
               ScaleZeroelim("bxtcatlen", V("catlen"), "cat", V("bdxtail"), "bxtcat"),
               ScaleZeroelim("temp32alen", V("bxtcatlen"), "bxtcat", Twice("bdx"), "temp32a"),
               SumZeroelim("temp48len", V("temp16alen"), "temp16a", V("temp32alen"), "temp32a", "temp48"),
               SumZeroelim("finlength", V("finlength"), "finnow", V("temp48len"), "temp48", "finother"),
               Point("finswap", "finnow"),
               Point("finnow", "finother"),
               Point("finother", "finswap"),
               IfAny(<<"cdytail">>,
                 << ScaleZeroelim("temp8len", K(4), "aa", V("bdxtail"), "temp8"),
                    ScaleZeroelim("temp16alen", V("temp8len"), "temp8", V("cdytail"), "temp16a"),
                    SumZeroelim("finlength", V("finlength"), "finnow", V("temp16alen"), "temp16a", "finother"),
                    Point("finswap", "finnow"),
                    Point("finnow", "finother"),
                    Point("finother", "finswap") >>,
                 <<>>),
               IfAny(<<"adytail">>,
                 << ScaleZeroelim("temp8len", K(4), "cc", Neg("bdxtail"), "temp8"),
                    ScaleZeroelim("temp16alen", V("temp8len"), "temp8", V("adytail"), "temp16a"),
                    SumZeroelim("finlength", V("finlength"), "finnow", V("temp16alen"), "temp16a", "finother"),
                    Point("finswap", "finnow"),
                    Point("finnow", "finother"),
                    Point("finother", "finswap") >>,
                 <<>>),
               ScaleZeroelim("temp32alen", V("bxtcatlen"), "bxtcat", V("bdxtail"), "temp32a"),
               ScaleZeroelim("bxtcattlen", V("cattlen"), "catt", V("bdxtail"), "bxtcatt"),
               ScaleZeroelim("temp16alen", V("bxtcattlen"), "bxtcatt", Twice("bdx"), "temp16a"),
               ScaleZeroelim("temp16blen", V("bxtcattlen"), "bxtcatt", V("bdxtail"), "temp16b"),
               SumZeroelim("temp32blen", V("temp16alen"), "temp16a", V("temp16blen"), "temp16b", "temp32b"),
               SumZeroelim("temp64len", V("temp32alen"), "temp32a", V("temp32blen"), "temp32b", "temp64"),
               SumZeroelim("finlength", V("finlength"), "finnow", V("temp64len"), "temp64", "finother"),
               Point("finswap", "finnow"),
               Point("finnow", "finother"),
               Point("finother", "finswap") >>,
            <<>>),
          IfAny(<<"bdytail">>,
            << ScaleZeroelim("temp16alen", V("bytcalen"), "bytca", V("bdytail"), "temp16a"),
               ScaleZeroelim("bytcatlen", V("catlen"), "cat", V("bdytail"), "bytcat"),
               ScaleZeroelim("temp32alen", V("bytcatlen"), "bytcat", Twice("bdy"), "temp32a"),
               SumZeroelim("temp48len", V("temp16alen"), "temp16a", V("temp32alen"), "temp32a", "temp48"),
               SumZeroelim("finlength", V("finlength"), "finnow", V("temp48len"), "temp48", "finother"),
               Point("finswap", "finnow"),
               Point("finnow", "finother"),
               Point("finother", "finswap"),
               ScaleZeroelim("temp32alen", V("bytcatlen"), "bytcat", V("bdytail"), "temp32a"),
               ScaleZeroelim("bytcattlen", V("cattlen"), "catt", V("bdytail"), "bytcatt"),
               ScaleZeroelim("temp16alen", V("bytcattlen"), "bytcatt", Twice("bdy"), "temp16a"),
               ScaleZeroelim("temp16blen", V("bytcattlen"), "bytcatt", V("bdytail"), "temp16b"),
               SumZeroelim("temp32blen", V("temp16alen"), "temp16a", V("temp16blen"), "temp16b", "temp32b"),
               SumZeroelim("temp64len", V("temp32alen"), "temp32a", V("temp32blen"), "temp32b", "temp64"),
               SumZeroelim("finlength", V("finlength"), "finnow", V("temp64len"), "temp64", "finother"),
               Point("finswap", "finnow"),
               Point("finnow", "finother"),
               Point("finother", "finswap") >>,
            <<>>) >>,
       <<>>) >>

\* The terms with the tails of pc.
incircleadapt_second_c ==
  << IfAny(<<"cdxtail", "cdytail">>,
       << IfAny(<<"adxtail", "adytail", "bdxtail", "bdytail">>,
            << TwoProduct(V("adxtail"), V("bdy"), "ti1", "ti0"),
               TwoProduct(V("adx"), V("bdytail"), "tj1", "tj0"),
               TwoTwoSum(V("ti1"), V("ti0"), V("tj1"), V("tj0"), "u3", "u"),
               AssignElem("u", 3, V("u3")),
               Assign("negate", Neg("ady")),
               TwoProduct(V("bdxtail"), V("negate"), "ti1", "ti0"),
               Assign("negate", Neg("adytail")),
               TwoProduct(V("bdx"), V("negate"), "tj1", "tj0"),
               TwoTwoSum(V("ti1"), V("ti0"), V("tj1"), V("tj0"), "v3", "v"),
               AssignElem("v", 3, V("v3")),
               SumZeroelim("abtlen", K(4), "u", K(4), "v", "abt"),
               TwoProduct(V("adxtail"), V("bdytail"), "ti1", "ti0"),
               TwoProduct(V("bdxtail"), V("adytail"), "tj1", "tj0"),
               TwoTwoDiff(V("ti1"), V("ti0"), V("tj1"), V("tj0"), "abtt3", "abtt"),
               AssignElem("abtt", 3, V("abtt3")),
               Assign("abttlen", K(4)) >>,
            << AssignElem("abt", 0, K(0)),
               Assign("abtlen", K(1)),
               AssignElem("abtt", 0, K(0)),
               Assign("abttlen", K(1)) >>),
          IfAny(<<"cdxtail">>,
            << ScaleZeroelim("temp16alen", V("cxtablen"), "cxtab", V("cdxtail"), "temp16a"),
               ScaleZeroelim("cxtabtlen", V("abtlen"), "abt", V("cdxtail"), "cxtabt"),
               ScaleZeroelim("temp32alen", V("cxtabtlen"), "cxtabt", Twice("cdx"), "temp32a"),
               SumZeroelim("temp48len", V("temp16alen"), "temp16a", V("temp32alen"), "temp32a", "temp48"),
               SumZeroelim("finlength", V("finlength"), "finnow", V("temp48len"), "temp48", "finother"),
               Point("finswap", "finnow"),
               Point("finnow", "finother"),
               Point("finother", "finswap"),
               IfAny(<<"adytail">>,
                 << ScaleZeroelim("temp8len", K(4), "bb", V("cdxtail"), "temp8"),
                    ScaleZeroelim("temp16alen", V("temp8len"), "temp8", V("adytail"), "temp16a"),
                    SumZeroelim("finlength", V("finlength"), "finnow", V("temp16alen"), "temp16a", "finother"),
                    Point("finswap", "finnow"),
                    Point("finnow", "finother"),
                    Point("finother", "finswap") >>,
                 <<>>),
               IfAny(<<"bdytail">>,
                 << ScaleZeroelim("temp8len", K(4), "aa", Neg("cdxtail"), "temp8"),
                    ScaleZeroelim("temp16alen", V("temp8len"), "temp8", V("bdytail"), "temp16a"),
                    SumZeroelim("finlength", V("finlength"), "finnow", V("temp16alen"), "temp16a", "finother"),
                    Point("finswap", "finnow"),
                    Point("finnow", "finother"),
                    Point("finother", "finswap") >>,
                 <<>>),
               ScaleZeroelim("temp32alen", V("cxtabtlen"), "cxtabt", V("cdxtail"), "temp32a"),
               ScaleZeroelim("cxtabttlen", V("abttlen"), "abtt", V("cdxtail"), "cxtabtt"),
               ScaleZeroelim("temp16alen", V("cxtabttlen"), "cxtabtt", Twice("cdx"), "temp16a"),
               ScaleZeroelim("temp16blen", V("cxtabttlen"), "cxtabtt", V("cdxtail"), "temp16b"),
               SumZeroelim("temp32blen", V("temp16alen"), "temp16a", V("temp16blen"), "temp16b", "temp32b"),
               SumZeroelim("temp64len", V("temp32alen"), "temp32a", V("temp32blen"), "temp32b", "temp64"),
               SumZeroelim("finlength", V("finlength"), "finnow", V("temp64len"), "temp64", "finother"),
               Point("finswap", "finnow"),
               Point("finnow", "finother"),
               Point("finother", "finswap") >>,
            <<>>),
          IfAny(<<"cdytail">>,
            << ScaleZeroelim("temp16alen", V("cytablen"), "cytab", V("cdytail"), "temp16a"),
               ScaleZeroelim("cytabtlen", V("abtlen"), "abt", V("cdytail"), "cytabt"),
               ScaleZeroelim("temp32alen", V("cytabtlen"), "cytabt", Twice("cdy"), "temp32a"),
               SumZeroelim("temp48len", V("temp16alen"), "temp16a", V("temp32alen"), "temp32a", "temp48"),
               SumZeroelim("finlength", V("finlength"), "finnow", V("temp48len"), "temp48", "finother"),
               Point("finswap", "finnow"),
               Point("finnow", "finother"),
               Point("finother", "finswap"),
               ScaleZeroelim("temp32alen", V("cytabtlen"), "cytabt", V("cdytail"), "temp32a"),
               ScaleZeroelim("cytabttlen", V("abttlen"), "abtt", V("cdytail"), "cytabtt"),
               ScaleZeroelim("temp16alen", V("cytabttlen"), "cytabtt", Twice("cdy"), "temp16a"),
               ScaleZeroelim("temp16blen", V("cytabttlen"), "cytabtt", V("cdytail"), "temp16b"),
               SumZeroelim("temp32blen", V("temp16alen"), "temp16a", V("temp16blen"), "temp16b", "temp32b"),
               SumZeroelim("temp64len", V("temp32alen"), "temp32a", V("temp32blen"), "temp32b", "temp64"),
               SumZeroelim("finlength", V("finlength"), "finnow", V("temp64len"), "temp64", "finother"),
               Point("finswap", "finnow"),
               Point("finnow", "finother"),
               Point("finother", "finswap") >>,
            <<>>) >>,
       <<>>) >>
(***************************************************************************)
(* incircleadapt, incircle.  A call gives a record: the value returned,    *)
(* the return statement taken (tier), permanent, the tails, finlength and  *)
(* what the locals say of the arrays.                                      *)
(***************************************************************************)
IRet(ret, tier, permanent, tails, L) ==
  [ret |-> ret, tier |-> tier, permanent |-> permanent, tails |-> tails,
   finlength |-> IF Has(L.s, "finlength") THEN L.s.finlength ELSE 0,
   room |-> IF Has(L.room, "finlength") THEN L.room.finlength ELSE 0,
   need |-> L.need, peak |-> L.peak, undef |-> L.undef]

incircleadapt_exact ==
  incircleadapt_squares \o incircleadapt_first \o incircleadapt_second_a
    \o incircleadapt_second_b \o incircleadapt_second_c

incircleadapt(t, pa, pb, pc, pd, permanent) ==
  LET adx == FSub(pa[1], pd[1])
      bdx == FSub(pb[1], pd[1])
      cdx == FSub(pc[1], pd[1])
      ady == FSub(pa[2], pd[2])
      bdy == FSub(pb[2], pd[2])
      cdy == FSub(pc[2], pd[2])
      adxtail == Two_Diff_Tail(pa[1], pd[1], adx)
      adytail == Two_Diff_Tail(pa[2], pd[2], ady)
      bdxtail == Two_Diff_Tail(pb[1], pd[1], bdx)
      bdytail == Two_Diff_Tail(pb[2], pd[2], bdy)
      cdxtail == Two_Diff_Tail(pc[1], pd[1], cdx)
      cdytail == Two_Diff_Tail(pc[2], pd[2], cdy)
      tails == <<adxtail, adytail, bdxtail, bdytail, cdxtail, cdytail>>
      Differences ==
        [adx |-> adx, bdx |-> bdx, cdx |-> cdx, ady |-> ady, bdy |-> bdy, cdy |-> cdy]
      Tails ==
        [adxtail |-> adxtail, adytail |-> adytail, bdxtail |-> bdxtail,
         bdytail |-> bdytail, cdxtail |-> cdxtail, cdytail |-> cdytail]
      \* return finnow[finlength - 1]
      Finished(L) ==
        IF L.undef THEN IRet(Unwritten, "D", permanent, tails, L)
        ELSE IRet(Rd(L.a[L.p.finnow], L.s.finlength - 1), "D", permanent, tails, L)
      \* the test of the corrected det against errbound, then the statements
      \* from finnow = fin1 on
      Corrected(L, det, errbound) ==
        IF Conclusive(det, errbound) THEN IRet(det, "C", permanent, tails, L)
        ELSE Finished(Run([L EXCEPT !.s = Tails @@ @], incircleadapt_exact, 1))
      \* the test of det = estimate(finlength, fin1) against
      \* iccerrboundB * permanent, the test of the tails, errbound and the
      \* correction of det
      Estimated(L, det) ==
        IF Conclusive(det, FMul(t.iccerrboundB, permanent))
        THEN IRet(det, "B", permanent, <<>>, L)
        ELSE IF adxtail = 0 /\ bdxtail = 0 /\ cdxtail = 0
                /\ adytail = 0 /\ bdytail = 0 /\ cdytail = 0
        THEN IRet(det, "tails", permanent, tails, L)
        ELSE Corrected(L,
               FAdd(det,
                 FAdd(FAdd(
                   FAdd(FMul(FAdd(FMul(adx, adx), FMul(ady, ady)),
                             FSub(FAdd(FMul(bdx, cdytail), FMul(cdy, bdxtail)),
                                  FAdd(FMul(bdy, cdxtail), FMul(cdx, bdytail)))),
                        FMul(FMul(Lit(2), FAdd(FMul(adx, adxtail), FMul(ady, adytail))),
                             FSub(FMul(bdx, cdy), FMul(bdy, cdx)))),
                   FAdd(FMul(FAdd(FMul(bdx, bdx), FMul(bdy, bdy)),
                             FSub(FAdd(FMul(cdx, adytail), FMul(ady, cdxtail)),
                                  FAdd(FMul(cdy, adxtail), FMul(adx, cdytail)))),
                        FMul(FMul(Lit(2), FAdd(FMul(bdx, bdxtail), FMul(bdy, bdytail))),
                             FSub(FMul(cdx, ady), FMul(cdy, adx))))),
                   FAdd(FMul(FAdd(FMul(cdx, cdx), FMul(cdy, cdy)),
                             FSub(FAdd(FMul(adx, bdytail), FMul(bdy, adxtail)),
                                  FAdd(FMul(ady, bdxtail), FMul(bdx, adytail)))),
                        FMul(FMul(Lit(2), FAdd(FMul(cdx, cdxtail), FMul(cdy, cdytail))),
                             FSub(FMul(adx, bdy), FMul(ady, bdx)))))),
               FAdd(FMul(t.iccerrboundC, permanent), FMul(t.resulterrbound, Absolute(det))))
      Built(L) ==
        IF L.undef THEN IRet(Unwritten, "B", permanent, <<>>, L)
        ELSE Estimated(L, estimate(Arr(L, "fin1", L.s.finlength)))
  IN  Built(Run([NoLocals EXCEPT !.s = Differences], incircleadapt_build, 1))

incircle(t, pa, pb, pc, pd) ==
  LET adx == FSub(pa[1], pd[1])
      bdx == FSub(pb[1], pd[1])
      cdx == FSub(pc[1], pd[1])
      ady == FSub(pa[2], pd[2])
      bdy == FSub(pb[2], pd[2])
      cdy == FSub(pc[2], pd[2])
      bdxcdy == FMul(bdx, cdy)
      cdxbdy == FMul(cdx, bdy)
      alift == FAdd(FMul(adx, adx), FMul(ady, ady))
      cdxady == FMul(cdx, ady)
      adxcdy == FMul(adx, cdy)
      blift == FAdd(FMul(bdx, bdx), FMul(bdy, bdy))
      adxbdy == FMul(adx, bdy)
      bdxady == FMul(bdx, ady)
      clift == FAdd(FMul(cdx, cdx), FMul(cdy, cdy))
      Tested(det, permanent, errbound) ==
        IF det > errbound \/ -det > errbound
        THEN IRet(det, "A", permanent, <<>>, NoLocals)
        ELSE incircleadapt(t, pa, pb, pc, pd, permanent)
      Bounded(det, permanent) == Tested(det, permanent, FMul(t.iccerrboundA, permanent))
  IN  Bounded(FAdd(FAdd(FMul(alift, FSub(bdxcdy, cdxbdy)),
                        FMul(blift, FSub(cdxady, adxcdy))),
                   FMul(clift, FSub(adxbdy, bdxady))),
              FAdd(FAdd(FMul(FAdd(Absolute(bdxcdy), Absolute(cdxbdy)), alift),
                        FMul(FAdd(Absolute(cdxady), Absolute(adxcdy)), blift)),
                   FMul(FAdd(Absolute(adxbdy), Absolute(bdxady)), clift)))

(***************************************************************************)
(* tMeshList< NodeType >.  A list object is a record of the members first, *)
(* last, nNodes (of the base class tList), lastactive, nActiveNodes, with  *)
(* the heap it lives in: next[n] is the member next of list node n, live   *)
(* the nodes allocated and not deleted; the null pointer is 0.  The base   *)
(* class is declared in src/tList/tList.h, which is not among the sources  *)
(* at hand: its operations are modelled by what the derived class relies   *)
(* on (a chain from first to last linked by next, nNodes its length).      *)
(* fault tells how a call went wrong: "null" or "freed" for the use of a   *)
(* null pointer or of a deleted node, "hang" for a loop that never ends;   *)
(* after that nothing is known of the program.                             *)
(***************************************************************************)
\* The list nodes the heap has room for.
MaxNodes == 3

NodeIds == 1..MaxNodes

\* tMeshList(): nActiveNodes(0), lastactive(0), on an empty tList.
EmptyList ==
  [first |-> 0, last |-> 0, nNodes |-> 0, lastactive |-> 0, nActiveNodes |-> 0,
   next |-> [n \in NodeIds |-> 0], live |-> {}, fault |-> "none",
   flag |-> [n \in NodeIds |-> 0]]

\* p points to a node that may be used.
Usable(L, p) == p # 0 /\ p \in L.live

\* The call has used the pointer p, which is null or points to a deleted node.
FaultAt(L, p) == [L EXCEPT !.fault = IF p = 0 THEN "null" ELSE "freed"]

\* p->next = q
SetNext(L, p, q) ==
  IF L.fault # "none" THEN L
  ELSE IF Usable(L, p) THEN [L EXCEPT !.next[p] = q] ELSE FaultAt(L, p)

\* tList::getNewNode: the node n comes from the free store.
getNewNode(L, n) ==
  [L EXCEPT !.live = @ \cup {n}, !.next[n] = 0, !.nNodes = @ + 1]

\* value = temp->data; delete temp; nNodes--
DeleteNode(L, temp) ==
  IF L.fault # "none" THEN L
  ELSE IF Usable(L, temp) THEN [L EXCEPT !.live = @ \ {temp}, !.nNodes = @ - 1]
  ELSE FaultAt(L, temp)

\* tList::isEmpty
isEmpty(L) == L.first = 0

isActiveEmpty(L) == L.lastactive = 0

isBoundEmpty(L) == L.lastactive = L.last

RECURSIVE FindPrev(_, _, _, _)
\* for( prev = p; prev->next != target; prev = prev->next ): the node found,
\* or -1, -2, -3 when the loop uses a null pointer, uses a deleted node, or
\* does not end.
FindPrev(L, p, target, fuel) ==
  IF p = 0 THEN -1
  ELSE IF p \notin L.live THEN -2
  ELSE IF L.next[p] = target THEN p
  ELSE IF fuel = 0 THEN -3
  ELSE FindPrev(L, L.next[p], target, fuel - 1)

\* The list after a loop that FindPrev says went wrong.
LoopFault(L, code) ==
  [L EXCEPT !.fault = IF code = -1 THEN "null" ELSE IF code = -2 THEN "freed" ELSE "hang"]

\* Detach mvnode from its position on the list:
\* if( mvnode == first ) first = first->next;
\* else{ prev = first; while( prev->next != mvnode ) prev = prev->next;
\*       prev->next = mvnode->next; }
Detach(L, mvnode) ==
  IF ~Usable(L, mvnode) THEN FaultAt(L, mvnode)
  ELSE IF mvnode = L.first THEN [L EXCEPT !.first = L.next[L.first]]
  ELSE LET prev == FindPrev(L, L.first, mvnode, MaxNodes)
       IN  IF prev < 0 THEN LoopFault(L, prev)
           ELSE [L EXCEPT !.next[prev] = L.next[mvnode]]

\* tList::insertAtFront
tList_insertAtFront(L, n) ==
  IF isEmpty(L) THEN [getNewNode(L, n) EXCEPT !.first = n, !.last = n]
  ELSE [getNewNode(L, n) EXCEPT !.next[n] = L.first, !.first = n]

\* tList::removeFromFront
tList_removeFromFront(L) ==
  IF isEmpty(L) THEN L
  ELSE IF L.first = L.last THEN DeleteNode([L EXCEPT !.first = 0, !.last = 0], L.first)
  ELSE IF ~Usable(L, L.first) THEN FaultAt(L, L.first)
  ELSE DeleteNode([L EXCEPT !.first = L.next[L.first]], L.first)

\* tList::moveToBack( tListNode * )
tList_moveToBack(L, mvnode) ==
  IF mvnode = L.last THEN L
  ELSE LET d == Detach(L, mvnode)
       IN  IF d.fault # "none" THEN d
           ELSE IF ~Usable(d, d.last) THEN FaultAt(d, d.last)
           ELSE [d EXCEPT !.next[mvnode] = d.next[d.last], !.next[d.last] = mvnode,
                          !.last = mvnode]

insertAtFront(L, n) ==
  LET b == tList_insertAtFront(L, n)
  IN  [b EXCEPT !.lastactive = IF isActiveEmpty(b) THEN b.first ELSE @,
                !.nActiveNodes = @ + 1]

insertAtBoundFront(L, n) ==
  LET b == getNewNode(L, n)
  IN  IF isEmpty(L) THEN [b EXCEPT !.first = n, !.last = n]
      ELSE IF L.lastactive = 0 THEN [b EXCEPT !.next[n] = L.first, !.first = n]
      ELSE IF ~Usable(L, L.lastactive) THEN FaultAt(b, L.lastactive)
      ELSE [b EXCEPT !.next[n] = L.next[L.lastactive], !.next[L.lastactive] = n,
                     !.last = IF L.lastactive = L.last THEN n ELSE @]

\* if( isBoundEmpty() ) last = lastactive; nActiveNodes++;
insertAtActiveBack_end(L) ==
  IF L.fault # "none" THEN L
  ELSE [L EXCEPT !.last = IF isBoundEmpty(L) THEN L.lastactive ELSE @,
                 !.nActiveNodes = @ + 1]

insertAtActiveBack(L, n) ==
  LET b == getNewNode(L, n)
  IN  insertAtActiveBack_end(
        IF isEmpty(L) THEN [b EXCEPT !.first = n, !.last = n, !.lastactive = n]
        ELSE IF isActiveEmpty(L) /\ ~isBoundEmpty(L)
        THEN [b EXCEPT !.lastactive = n, !.next[n] = L.first, !.first = n]
        ELSE IF ~Usable(L, L.lastactive) THEN FaultAt(b, L.lastactive)
        ELSE IF isBoundEmpty(L)
        THEN [b EXCEPT !.next[n] = L.next[L.lastactive], !.next[L.lastactive] = n,
                       !.lastactive = n, !.last = n]
        ELSE [b EXCEPT !.next[n] = L.next[L.lastactive], !.next[L.lastactive] = n,
                       !.lastactive = n])

removeFromFront(L) ==
  tList_removeFromFront(
    IF ~isActiveEmpty(L)
    THEN [L EXCEPT !.nActiveNodes = @ - 1,
                   !.lastactive = IF L.lastactive = L.first THEN 0 ELSE @]
    ELSE L)

removeFromBoundFront(L) ==
  IF isEmpty(L) THEN L
  ELSE IF L.last = L.lastactive THEN L
  ELSE IF ~Usable(L, L.lastactive) THEN FaultAt(L, L.lastactive)
  ELSE LET temp == L.next[L.lastactive]
       IN  IF L.first = L.last THEN DeleteNode([L EXCEPT !.first = 0, !.last = 0], temp)
           ELSE IF ~Usable(L, temp) THEN FaultAt(L, temp)
           ELSE DeleteNode([L EXCEPT !.next[L.lastactive] = L.next[temp]], temp)

\* The else part of removeFromActiveBack: lastactive is L.lastactive, temp the
\* node to delete.
removeFromActiveBack_unlink(L, temp) ==
  LET current == FindPrev(L, L.first, L.lastactive, MaxNodes)
  IN  IF current < 0 THEN LoopFault(L, current)
      ELSE IF ~Usable(L, L.lastactive) THEN FaultAt(L, L.lastactive)
      ELSE [L EXCEPT !.next[current] = L.next[L.lastactive],
                     !.next[L.lastactive] = 0,
                     !.lastactive = current]

\* delete temp; nNodes--; nActiveNodes--
removeFromActiveBack_end(L, temp) ==
  LET d == DeleteNode(L, temp)
  IN  IF d.fault # "none" THEN d ELSE [d EXCEPT !.nActiveNodes = @ - 1]

removeFromActiveBack(L) ==
  IF isEmpty(L) THEN L
  ELSE LET temp == L.lastactive
           a == IF L.first = L.lastactive THEN [L EXCEPT !.lastactive = 0] ELSE L
       IN  removeFromActiveBack_end(
             IF a.first = a.last THEN [a EXCEPT !.first = 0, !.last = 0]
             ELSE removeFromActiveBack_unlink(a, temp),
             temp)

RECURSIVE InActiveList_loop(_, _, _, _)
\* while( listnode != lastactive && listnode != theNode ) listnode = listnode->next;
\* the node the loop ends at, or a code of FindPrev.
InActiveList_loop(L, listnode, theNode, fuel) ==
  IF listnode = L.lastactive \/ listnode = theNode THEN listnode
  ELSE IF listnode = 0 THEN -1
  ELSE IF listnode \notin L.live THEN -2
  ELSE IF fuel = 0 THEN -3
  ELSE InActiveList_loop(L, L.next[listnode], theNode, fuel - 1)

\* InActiveList( theNode ): 1, 0, or a code of FindPrev.
InActiveList(L, theNode) ==
  IF L.nActiveNodes = 0 THEN 0
  ELSE LET listnode == InActiveList_loop(L, L.first, theNode, MaxNodes)
       IN  IF listnode < 0 THEN listnode ELSE IF listnode = theNode THEN 1 ELSE 0

\* if( InActiveList( mvnode ) ) nActiveNodes--;
CountedOut(L, mvnode) ==
  LET in == InActiveList(L, mvnode)
  IN  IF in < 0 THEN LoopFault(L, in)
      ELSE IF in = 1 THEN [L EXCEPT !.nActiveNodes = @ - 1] ELSE L

\* mvnode->next = lastactive->next; lastactive->next = mvnode;
\* if( lastactive == last ){ last = mvnode;
\*                           if( last->next != 0 ) last->next = first; }
InsertAfterLastActive(L, mvnode) ==
  IF L.fault # "none" THEN L
  ELSE IF ~Usable(L, L.lastactive) THEN FaultAt(L, L.lastactive)
  ELSE LET a == SetNext(L, mvnode, L.next[L.lastactive])
           b == SetNext(a, L.lastactive, mvnode)
       IN  IF b.fault # "none" \/ L.lastactive # L.last THEN b
           ELSE [b EXCEPT !.last = mvnode,
                          !.next[mvnode] = IF b.next[mvnode] # 0 THEN b.first ELSE 0]

\* if( mvnode == lastactive ){ if( mvnode != first ){ for( prev ... );
\*   lastactive = prev; } else lastactive = 0; }
LastActiveBefore(L, mvnode) ==
  IF L.fault # "none" \/ mvnode # L.lastactive THEN L
  ELSE IF mvnode = L.first THEN [L EXCEPT !.lastactive = 0]
  ELSE LET prev == FindPrev(L, L.first, mvnode, MaxNodes)
       IN  IF prev < 0 THEN LoopFault(L, prev) ELSE [L EXCEPT !.lastactive = prev]

moveToBack(L, mvnode) ==
  IF mvnode = L.last THEN L
  ELSE LET a == LastActiveBefore(CountedOut(L, mvnode), mvnode)
       IN  IF a.fault # "none" THEN a ELSE tList_moveToBack(a, mvnode)

moveToActiveBack(L, mvnode) ==
  IF mvnode = L.lastactive THEN L
  ELSE LET a == InsertAfterLastActive(Detach(L, mvnode), mvnode)
       IN  IF a.fault # "none" THEN a ELSE [a EXCEPT !.lastactive = mvnode]

moveToBoundFront(L, mvnode) ==
  IF ~Usable(L, L.lastactive) THEN FaultAt(L, L.lastactive)
  ELSE IF mvnode = L.next[L.lastactive] THEN L
  ELSE LET a == CountedOut(L, mvnode)
       IN  IF a.fault # "none" THEN a
           ELSE InsertAfterLastActive(Detach(a, mvnode), mvnode)


\* No member function has been called yet.
NoListCall == [op |-> "none", node |-> 0, before |-> EmptyList, active |-> {}, bound |-> {}]

(***************************************************************************)
(* The data of a list node is a mesh node, of which the list uses the      *)
(* boundary flag.  The flags are defined in src/Headers/Definitions.h,     *)
(* which is not among the sources at hand; flag[n] is the boundary flag of *)
(* the data of node n.                                                     *)
(***************************************************************************)
kNonBoundary == 0
kClosedBoundary == 1
kOpenBoundary == 2
kStream == 3

\* getNewNode( value ): the new node n holds value.
WithData(L, n, value) == [L EXCEPT !.flag[n] = value]

\* tMeshListIter::IsActive, with curnode at node n
IsActive(L, n) ==
  IF n # 0 THEN LET act == L.flag[n] IN (act = kNonBoundary) \/ (act = kStream)
  ELSE FALSE

\* The call that made M of L has deleted a node and returned 1.
Deleted(L, M) == M.fault = "none" /\ M.nNodes = L.nNodes - 1

\* The node it deleted, whose data is in value.
Value(L, M) == CHOOSE n \in L.live : n \notin M.live

\* tList::removeFromBack
tList_removeFromBack(L) ==
  IF isEmpty(L) THEN L
  ELSE IF L.first = L.last THEN DeleteNode([L EXCEPT !.first = 0, !.last = 0], L.last)
  ELSE LET nexttolast == FindPrev(L, L.first, L.last, MaxNodes)
       IN  IF nexttolast < 0 THEN LoopFault(L, nexttolast)
           ELSE IF ~Usable(L, L.last) THEN FaultAt(L, L.last)
           ELSE DeleteNode([L EXCEPT !.next[nexttolast] = L.next[L.last],
                                     !.last = nexttolast], L.last)

\* tList::removeNext
tList_removeNext(L, ptr) ==
  IF ~Usable(L, ptr) THEN FaultAt(L, ptr)
  ELSE IF L.next[ptr] = 0 THEN L
  ELSE IF L.next[ptr] = L.last THEN tList_removeFromBack(L)
  ELSE IF L.next[ptr] = L.first THEN tList_removeFromFront(L)
  ELSE LET temp == L.next[ptr]
       IN  IF ~Usable(L, temp) THEN FaultAt(L, temp)
           ELSE DeleteNode([L EXCEPT !.next[ptr] = L.next[temp]], temp)

RECURSIVE FindPrevPrev(_, _, _, _)
\* for( temp = first; temp->next->next != ptr; temp = temp->next ): the node
\* found, or a code of FindPrev.
FindPrevPrev(L, temp, ptr, fuel) ==
  IF temp = 0 THEN -1
  ELSE IF temp \notin L.live THEN -2
  ELSE IF L.next[temp] = 0 THEN -1
  ELSE IF L.next[temp] \notin L.live THEN -2
  ELSE IF L.next[L.next[temp]] = ptr THEN temp
  ELSE IF fuel = 0 THEN -3
  ELSE FindPrevPrev(L, L.next[temp], ptr, fuel - 1)

\* tList::removePrev
tList_removePrev(L, ptr) ==
  IF ptr = 0 THEN L
  ELSE IF ptr = L.first /\ ~Usable(L, L.last) THEN FaultAt(L, L.last)
  ELSE IF ptr = L.first /\ L.next[L.last] = 0 THEN L
  ELSE IF ptr = L.first THEN tList_removeFromBack(L)
  ELSE IF ~Usable(L, L.first) THEN FaultAt(L, L.first)
  ELSE IF L.next[L.first] = ptr THEN tList_removeFromFront(L)
  ELSE LET prev == FindPrevPrev(L, L.first, ptr, MaxNodes)
       IN  IF prev < 0 THEN LoopFault(L, prev)
           ELSE DeleteNode([L EXCEPT !.next[prev] = ptr], L.next[prev])

\* if( tList::removeNext( value, ptr ) ){ int act = value.getBoundaryFlag();
\*   if ((act == kNonBoundary) || (act == kStream )) nActiveNodes--; }
removeNext_count(L, M) ==
  IF Deleted(L, M) /\ IsActive(L, Value(L, M)) THEN [M EXCEPT !.nActiveNodes = @ - 1] ELSE M

removeNext(L, ptr) ==
  IF ~Usable(L, ptr) THEN FaultAt(L, ptr)
  ELSE IF L.next[ptr] = 0 THEN L
  ELSE IF L.next[ptr] = L.lastactive THEN removeFromActiveBack(L)
  ELSE IF ptr = L.lastactive THEN removeFromBoundFront(L)
  ELSE removeNext_count(L, tList_removeNext(L, ptr))

\* if( tList::removePrev( value, ptr ) ){
\*   if( !( value.getBoundaryFlag() ) ) nActiveNodes--; }
removePrev_count(L, M) ==
  IF Deleted(L, M) /\ L.flag[Value(L, M)] = 0 THEN [M EXCEPT !.nActiveNodes = @ - 1] ELSE M

removePrev(L, ptr) ==
  IF ptr = 0 THEN L
  ELSE IF ptr = L.first /\ ~Usable(L, L.last) THEN FaultAt(L, L.last)
  ELSE IF ptr = L.first /\ L.next[L.last] = 0 THEN L
  ELSE IF ~Usable(L, L.lastactive) THEN FaultAt(L, L.lastactive)
  ELSE IF L.next[L.lastactive] = ptr THEN removeFromActiveBack(L)
  ELSE removePrev_count(L, tList_removePrev(L, ptr))

RECURSIVE Walk(_, _, _)
\* The nodes met from p along next, closed by 0 where the walk meets a
\* deleted node or has not ended after fuel nodes.
Walk(L, p, fuel) ==
  IF p = 0 THEN <<>>
  ELSE IF p \notin L.live \/ fuel = 0 THEN <<0>>
  ELSE <<p>> \o Walk(L, L.next[p], fuel - 1)

\* The nodes of the list from first on.
Chain(L) == Walk(L, L.first, MaxNodes)

Nodes(s) == {s[i] : i \in 1..Len(s)}

\* The list is a chain from first to last whose first nActiveNodes nodes are
\* the active part, ending at lastactive.
WellFormed(L) ==
  LET s == Chain(L)
  IN  /\ L.fault = "none"
      /\ 0 \notin Nodes(s)
      /\ Nodes(s) = L.live
      /\ L.last = (IF s = <<>> THEN 0 ELSE s[Len(s)])
      /\ L.nActiveNodes \in 0..Len(s)
      /\ L.lastactive = (IF L.nActiveNodes = 0 THEN 0 ELSE s[L.nActiveNodes])

(***************************************************************************)
(* main of the InitialGW utility, as far as its files go.  A run is        *)
(* started with argc arguments in a directory where the files of openable  *)
(* can be opened; valid tells whether the grids pass the cross-checks.     *)
(*   pc        the statement main is at, "exit" after exit() or return     *)
(*   status    the exit status, -1 while main runs                         *)
(*   reported  the files reported as not found                             *)
(*   read      the input data extracted so far                             *)
(*   Inp4      the state of the stream of the soil reclassification table  *)
(***************************************************************************)
\* The files named in the control file, in the order of their names.
Inputs == <<"DEM", "Flow Accumulations", "Flow Directions", "Soil Reclassification Table">>

Files == {"control"} \cup {Inputs[i] : i \in DOMAIN Inputs}

\* main of InitialGW has not been started.
NotRun ==
  [pc |-> "none", argc |-> 0, openable |-> {}, valid |-> FALSE, status |-> -1,
   reported |-> {}, read |-> {}, Inp4 |-> "none"]

\* exit( status )
exit(g, status) == [g EXCEPT !.pc = "exit", !.status = status]

\* std::ifstream Inp(name); if (!Inp) { report; exit(2); } for the stream
\* opened on file and tested at the statement pc, with next the statement
\* that follows.
OpenChecked(g, file, next) ==
  IF file \in g.openable THEN [g EXCEPT !.pc = next]
  ELSE exit([g EXCEPT !.reported = @ \cup {file}], 2)
(***************************************************************************)
(* A Predicates object and its callers.                                    *)
(*   coef  the coefficient members of the object                           *)
(*   ctl   "new" while the constructor has not run, "idle" between calls,  *)
(*         "ret" when a method has returned and its result is in out       *)
(*   op, args, out   the method called last, its arguments and its result  *)
(*   memo  an earlier call and its result, kept by the caller, and whether *)
(*         the caller has taken the result of another call since           *)
(*   tried the tiers that the call of orient2d in progress has executed    *)
(*   loop  the locals of exactinit while the constructor runs it           *)
(* A tMeshList object and its caller.                                      *)
(*   list  the list object and its heap                                    *)
(*   call  the member function called last, its argument, the list before  *)
(*         the call, and the nodes present that were inserted as active    *)
(*         and as boundary nodes                                           *)
(* A run of the InitialGW utility.                                         *)
(*   gw    where main is, what it was started with and what it has done    *)
(* A call of incircle followed statement by statement.                     *)
(*   frame the locals of incircleadapt, the statements still to run, and   *)
(*         what the sums into finother have done so far                    *)
(***************************************************************************)
VARIABLES coef, ctl, op, args, out, memo, tried, loop, list, call, gw, frame

vars == <<coef, ctl, op, args, out, memo, tried, loop, list, call, gw, frame>>

\* The list and its caller.
mesh == <<list, call>>

\* What a method that runs in one step leaves alone.
others == <<tried, loop, mesh, gw, frame>>

\* The Predicates object and its callers.
predicates == <<coef, ctl, op, args, out, memo, tried, loop, frame>>

\* exactinit is not running.
NoLoop == [at |-> "none"]

\* The members before the constructor has run: none is written.
NoCoef == [f \in DOMAIN Coefficients(<<0, 0>>) |-> Unwritten]

NoCall == [op |-> "none", args |-> <<>>, out |-> <<>>, between |-> FALSE]

\* No call of incircle is being followed.
NoFrame == [pc |-> "none"]

Init ==
  /\ coef = NoCoef
  /\ ctl = "new"
  /\ op = "none"
  /\ args = <<>>
  /\ out = <<>>
  /\ memo = NoCall
  /\ tried = <<>>
  /\ loop = NoLoop
  /\ list = EmptyList
  /\ call = NoListCall
  /\ gw = NotRun
  /\ frame = NoFrame

\* Predicates::Predicates() { exactinit(); }
Construct ==
  /\ ctl = "new"
  /\ coef' = exactinit
  /\ ctl' = "idle"
  /\ UNCHANGED <<op, args, out, memo, others>>

\* A method called with arguments a returns r; the object is left as it was.
Returns(name, a, r) ==
  /\ ctl' = "ret"
  /\ op' = name
  /\ args' = a
  /\ out' = r
  /\ UNCHANGED <<coef, memo, others>>

\* The caller takes the result and forgets it.
Return ==
  /\ ctl = "ret"
  /\ ctl' = "idle"
  /\ op' = "none"
  /\ args' = <<>>
  /\ out' = <<>>
  /\ memo' = IF memo.op = "none" THEN memo ELSE [memo EXCEPT !.between = TRUE]
  /\ UNCHANGED <<coef, others>>

\* The three predicates a caller reaches the others through.
PredicateNames == {"orient2d", "incircle", "DifferenceOfProductsOfDifferences"}

\* The caller takes the result of a predicate and keeps it to compare a later
\* call against.
Remember ==
  /\ ctl = "ret"
  /\ op \in PredicateNames
  /\ ctl' = "idle"
  /\ memo' = [op |-> op, args |-> args, out |-> out, between |-> FALSE]
  /\ op' = "none"
  /\ args' = <<>>
  /\ out' = <<>>
  /\ UNCHANGED <<coef, others>>

(***************************************************************************)
(* The inputs.                                                             *)
(***************************************************************************)
\* A coordinate so small that its square is below one quantum.
Tiny == Pow2(FBits - 1)

\* Integer coordinates, as multiples of 1.0: small ones, whose differences
\* are exact, and one so large that a difference with a small one is not.
OrientInts == {0, 1, 7, 44}

OrientCoords == {Lit(k) : k \in OrientInts} \cup {Tiny}

\* Coordinates so small that a product of two differences is less than the
\* smallest tREAL above 0, or that very number.
TinyCoords == {0, Tiny, FAdd(Tiny, Tiny)}

Points(C) == C \X C

\* Three points with integer coordinates that take orient2d through its tiers.
FewPoints == {<<0, 0>>, <<Lit(1), Lit(1)>>, <<Lit(7), Lit(44)>>}

IntegerCoords(a) == \A i \in 1..Len(a) : \A j \in 1..2 : a[i][j] % One = 0

\* The spacing of the coordinates given to incircle: the fourth power of it
\* is a whole number of quanta, so no product of four differences underflows.
Grid == Pow2(EBits - EBits \div 4)

\* A coordinate whose difference with Grid is not a tREAL, and the next.
Far == Lit(9)

Farther == Lit(10)

\* The points pa, pb, pc of incircle: three on the unit circle, and five far
\* from the origin in x, in y or in both.
CirclePoints ==
  { <<Lit(1), 0>>, <<0, Lit(1)>>, <<-Lit(1), 0>>,
    <<Far, Lit(1)>>, <<Lit(1), Far>>, <<Far, Far>>, <<Farther, Far>>, <<Far, Farther>> }

\* The points pd: inside, on and outside the unit circle, and one whose
\* differences with the far points have tails.
CircleCentres == {<<0, 0>>, <<0, -Lit(1)>>, <<Lit(2), Lit(2)>>, <<Grid, Grid>>}

FewCirclePoints == {<<Far, Far>>, <<Farther, Far>>}

FewCircleCentres == {<<0, 0>>, <<Grid, Grid>>}

\* The longest expansion handed to an expansion operation.
MaxLen == 3

\* Components of three magnitudes that do not overlap, too far apart for the
\* sum of two of different magnitudes to be a tREAL; 96 and -96 cancel.
Components == {0, -Lit(1), Lit(96), -Lit(96), Lit(6144)}

\* Factors and summands: 11 * 96 and 11 * 6144 are not tREALs.
Scalars == {0, Lit(1), -Lit(3), Lit(11)}

RECURSIVE PowerAbove(_, _)
\* The least p * 2^k above n.
PowerAbove(n, p) == IF p > n THEN p ELSE PowerAbove(n, 2 * p)

\* x, earlier in an expansion than y, does not overlap y.
Nonoverlapping(x, y) ==
  x = 0 \/ y = 0 \/ (Abs(x) < Abs(y) /\ Abs(y) % PowerAbove(Abs(x), 1) = 0)

\* The expansions of n components at most: nonoverlapping, in order of
\* increasing magnitude, zeros anywhere.
Expansions(n) ==
  { e \in UNION {[1..k -> Components] : k \in 1..n} :
      \A i \in 1..Len(e) : \A j \in 1..Len(e) : i < j => Nonoverlapping(e[i], e[j]) }

(***************************************************************************)
(* The calls.                                                              *)
(***************************************************************************)
\* A faulty orient2d: it leaves ccwerrboundA lowered for the calls after it.
CallOrient2dCaching(P) ==
  /\ ctl = "idle"
  /\ \E pa \in P, pb \in P, pc \in P :
       /\ ctl' = "ret"
       /\ op' = "orient2d"
       /\ args' = <<pa, pb, pc>>
       /\ out' = orient2d(coef, pa, pb, pc)
       /\ coef' = [coef EXCEPT !.ccwerrboundA = 0]
       /\ UNCHANGED <<memo, others>>

CallOrient2d(P) ==
  /\ ctl = "idle"
  /\ \E pa \in P, pb \in P, pc \in P :
       Returns("orient2d", <<pa, pb, pc>>, orient2d(coef, pa, pb, pc))

\* The eight scalars that make DifferenceOfProductsOfDifferences evaluate
\* the orientation determinant of pa, pb, pc.
OrientTerms(pa, pb, pc) == <<pa[1], pc[1], pb[2], pc[2], pa[2], pc[2], pb[1], pc[1]>>

DiffOfProds(t, x) ==
  DifferenceOfProductsOfDifferences(t, x[1], x[2], x[3], x[4], x[5], x[6], x[7], x[8])

CallDifferenceOfProductsOfDifferences(P) ==
  /\ ctl = "idle"
  /\ \E pa \in P, pb \in P, pc \in P :
       LET x == OrientTerms(pa, pb, pc)
       IN  Returns("DifferenceOfProductsOfDifferences", x, DiffOfProds(coef, x))

\* What a call that gave r can return: what it computed, or any value when it
\* read a variable that was never assigned.
Outcomes(r) ==
  IF r.undef THEN {[r EXCEPT !.ret = v] : v \in {-Lit(1), 0, Lit(1)}} ELSE {r}

\* A faulty incircle: it halves epsilon.
CallIncircleWriting(P, D) ==
  /\ ctl = "idle"
  /\ \E pa \in P, pb \in P, pc \in P, pd \in D :
       \E r \in Outcomes(incircle(coef, pa, pb, pc, pd)) :
         /\ ctl' = "ret"
         /\ op' = "incircle"
         /\ args' = <<pa, pb, pc, pd>>
         /\ out' = r
         /\ coef' = [coef EXCEPT !.epsilon = FMul(@, Half)]
         /\ UNCHANGED <<memo, others>>

CallIncircle(P, D) ==
  /\ ctl = "idle"
  /\ \E pa \in P, pb \in P, pc \in P, pd \in D :
       \E r \in Outcomes(incircle(coef, pa, pb, pc, pd)) :
         Returns("incircle", <<pa, pb, pc, pd>>, r)

CallGrowExpansion(E, B) ==
  /\ ctl = "idle"
  /\ \E e \in E, b \in B : Returns("grow_expansion", <<e, b>>, grow_expansion(e, b))

CallGrowExpansionZeroelim(E, B) ==
  /\ ctl = "idle"
  /\ \E e \in E, b \in B :
       Returns("grow_expansion_zeroelim", <<e, b>>, grow_expansion_zeroelim(e, b))

CallExpansionSum(E) ==
  /\ ctl = "idle"
  /\ \E e \in E, f \in E : Returns("expansion_sum", <<e, f>>, expansion_sum(e, f))

CallExpansionSumZeroelim1(E) ==
  /\ ctl = "idle"
  /\ \E e \in E, f \in E :
       Returns("expansion_sum_zeroelim1", <<e, f>>, expansion_sum_zeroelim1(e, f))

CallExpansionSumZeroelim2(E) ==
  /\ ctl = "idle"
  /\ \E e \in E, f \in E :
       Returns("expansion_sum_zeroelim2", <<e, f>>, expansion_sum_zeroelim2(e, f))

CallFastExpansionSum(E) ==
  /\ ctl = "idle"
  /\ \E e \in E, f \in E : Returns("fast_expansion_sum", <<e, f>>, fast_expansion_sum(e, f))

CallFastExpansionSumZeroelim(E) ==
  /\ ctl = "idle"
  /\ \E e \in E, f \in E :
       Returns("fast_expansion_sum_zeroelim", <<e, f>>, fast_expansion_sum_zeroelim(e, f))

CallLinearExpansionSum(E) ==
  /\ ctl = "idle"
  /\ \E e \in E, f \in E :
       Returns("linear_expansion_sum", <<e, f>>, linear_expansion_sum(e, f))

CallLinearExpansionSumZeroelim(E) ==
  /\ ctl = "idle"
  /\ \E e \in E, f \in E :
       Returns("linear_expansion_sum_zeroelim", <<e, f>>, linear_expansion_sum_zeroelim(e, f))

CallScaleExpansion(E, B) ==
  /\ ctl = "idle"
  /\ \E e \in E, b \in B : Returns("scale_expansion", <<e, b>>, scale_expansion(e, b))

CallScaleExpansionZeroelim(E, B) ==
  /\ ctl = "idle"
  /\ \E e \in E, b \in B :
       Returns("scale_expansion_zeroelim", <<e, b>>, scale_expansion_zeroelim(e, b))

CallCompress(E) ==
  /\ ctl = "idle"
  /\ \E e \in E : Returns("compress", <<e>>, compress(e))

CallEstimate(E) ==
  /\ ctl = "idle"
  /\ \E e \in E : Returns("estimate", <<e>>, [ret |-> estimate(e)])

\* A call of any of the expansion operations.
CallExpansionOperation(E, B) ==
  \/ CallGrowExpansion(E, B)
  \/ CallGrowExpansionZeroelim(E, B)
  \/ CallExpansionSum(E)
  \/ CallExpansionSumZeroelim1(E)
  \/ CallExpansionSumZeroelim2(E)
  \/ CallFastExpansionSum(E)
  \/ CallFastExpansionSumZeroelim(E)
  \/ CallLinearExpansionSum(E)
  \/ CallLinearExpansionSumZeroelim(E)
  \/ CallScaleExpansion(E, B)
  \/ CallScaleExpansionZeroelim(E, B)
  \/ CallCompress(E)
  \/ CallEstimate(E)

(***************************************************************************)
(* The specifications.                                                     *)
(***************************************************************************)
\* An object, every method called on it, and a caller that may keep results.
Next ==
  \/ Construct
  \/ CallOrient2d(FewPoints)
  \/ CallDifferenceOfProductsOfDifferences(FewPoints)
  \/ CallIncircle(FewCirclePoints, FewCircleCentres)
  \/ CallExpansionOperation(Expansions(1), Scalars)
  \/ Return
  \/ Remember

Spec == Init /\ [][Next]_vars

\* orient2d and DifferenceOfProductsOfDifferences on many points.
NextOrient ==
  \/ Construct
  \/ CallOrient2d(Points(OrientCoords))
  \/ CallDifferenceOfProductsOfDifferences(Points(OrientCoords))
  \/ Return

SpecOrient == Init /\ [][NextOrient]_vars

\* orient2d and DifferenceOfProductsOfDifferences on points close to each other.
NextTiny ==
  \/ Construct
  \/ CallOrient2d(Points(TinyCoords))
  \/ CallDifferenceOfProductsOfDifferences(Points(TinyCoords))
  \/ Return

SpecTiny == Init /\ [][NextTiny]_vars

\* The three predicates on many points.
NextPredicates ==
  \/ Construct
  \/ CallOrient2d(Points(OrientCoords))
  \/ CallDifferenceOfProductsOfDifferences(Points(OrientCoords))
  \/ CallIncircle(CirclePoints, CircleCentres)
  \/ Return

SpecPredicates == Init /\ [][NextPredicates]_vars

\* The expansion operations on many expansions.
NextExpansion ==
  \/ Construct
  \/ CallExpansionOperation(Expansions(MaxLen), Scalars)
  \/ Return

SpecExpansion == Init /\ [][NextExpansion]_vars

(***************************************************************************)
(* exactinit() statement by statement: the constructor runs it to its end  *)
(* before any method can be called.                                        *)
(***************************************************************************)
\* A faulty loop body: splitter is doubled in every pass.
DoubledAlways(every_other, splitter) == FMul(splitter, Lit(2))

\* if (every_other) { splitter *= 2.0; }
Doubled(every_other, splitter) ==
  IF every_other # 0 THEN FMul(splitter, Lit(2)) ELSE splitter

\* every_other = 1; half = 0.5; epsilon = 1.0; splitter = 1.0; check = 1.0;
\* passes counts the passes of the loop body, doubling the passes that have
\* doubled splitter.
ExactinitBegin ==
  /\ ctl = "new"
  /\ loop.at = "none"
  /\ loop' = [at |-> "do", every_other |-> 1, half |-> Half, check |-> Lit(1),
              lastcheck |-> Unwritten, passes |-> 0, doubling |-> {}]
  /\ coef' = [coef EXCEPT !.epsilon = Lit(1), !.splitter = Lit(1)]
  /\ UNCHANGED <<ctl, op, args, out, memo, tried, mesh, gw, frame>>

\* One pass of do { ... } while ((check != 1.0) && (check != lastcheck)).
ExactinitPass ==
  /\ loop.at = "do"
  /\ LET eps == FMul(coef.epsilon, loop.half)
         check == FAdd(Lit(1), eps)
     IN  /\ coef' = [coef EXCEPT !.epsilon = eps,
                                 !.splitter = Doubled(loop.every_other, @)]
         /\ loop' = [loop EXCEPT
                       !.lastcheck = loop.check,
                       !.every_other = IF @ # 0 THEN 0 ELSE 1,
                       !.check = check,
                       !.passes = @ + 1,
                       !.doubling = IF loop.every_other # 0 THEN @ \cup {loop.passes + 1} ELSE @,
                       !.at = IF check # Lit(1) /\ check # loop.check THEN "do" ELSE "after"]
  /\ UNCHANGED <<ctl, op, args, out, memo, tried, mesh, gw, frame>>

\* splitter += 1.0 and the assignments of the error bounds; the constructor
\* returns.
ExactinitEnd ==
  /\ loop.at = "after"
  /\ coef' = Coefficients(<<coef.epsilon, coef.splitter>>)
  /\ loop' = [loop EXCEPT !.at = "done"]
  /\ ctl' = "idle"
  /\ UNCHANGED <<op, args, out, memo, tried, mesh, gw, frame>>

\* The constructor step by step, then calls of orient2d.
NextInit ==
  \/ ExactinitBegin
  \/ ExactinitPass
  \/ ExactinitEnd
  \/ CallOrient2d(Points(OrientCoords))
  \/ Return

\* The constructor is sequential code: once it is entered, the loop runs on
\* for as long as its condition holds.
SpecInit ==
  /\ Init
  /\ [][NextInit]_vars
  /\ WF_vars(ExactinitBegin) /\ WF_vars(ExactinitPass)

(***************************************************************************)
(* orient2d and orient2dadapt tier by tier.  A tier is the code up to and  *)
(* including one return statement; tried is the sequence of the tiers      *)
(* executed by the call in progress, each with whether it returned.        *)
(***************************************************************************)
\* The tiers in the order of the return statements they end with: lines
\* 1006-1019 of orient2d, 954, 964, 970 and 992 of orient2dadapt.
TierNames == <<"A", "B", "tails", "C", "D">>

\* detleft and detright of orient2d(pa, pb, pc), as the code rounds them.
Detleft(pa, pb, pc) == FMul(FSub(pa[1], pc[1]), FSub(pb[2], pc[2]))
Detright(pa, pb, pc) == FMul(FSub(pa[2], pc[2]), FSub(pb[1], pc[1]))

\* A tier has returned r, or has fallen through to the code after it.
Decided(r) == [conclusive |-> TRUE, ret |-> r]
Undecided == [conclusive |-> FALSE, ret |-> <<>>]

\* detsum as orient2d computes it when detleft and detright have one sign.
Detsum(detleft, detright) ==
  IF detleft > 0 THEN FAdd(detleft, detright) ELSE FSub(-detleft, detright)

\* orient2d up to the call of orient2dadapt.
TierA(t, detleft, detright) ==
  LET det == FSub(detleft, detright)
  IN  IF detleft > 0 /\ detright <= 0 THEN Decided(Ret(det, "sign", 0, <<>>, <<>>))
      ELSE IF detleft < 0 /\ detright >= 0 THEN Decided(Ret(det, "sign", 0, <<>>, <<>>))
      ELSE IF detleft = 0 THEN Decided(Ret(det, "sign", 0, <<>>, <<>>))
      ELSE IF Conclusive(det, FMul(t.ccwerrboundA, Detsum(detleft, detright)))
      THEN Decided(Ret(det, "A", Detsum(detleft, detright), <<>>, <<>>))
      ELSE Undecided

\* acx, bcx, acy, bcy of orient2dadapt with their tails, and B.
AdaptLocals(pa, pb, pc) ==
  LET acx == FSub(pa[1], pc[1])
      bcx == FSub(pb[1], pc[1])
      acy == FSub(pa[2], pc[2])
      bcy == FSub(pb[2], pc[2])
  IN  [acx |-> acx, bcx |-> bcx, acy |-> acy, bcy |-> bcy,
       acxtail |-> Two_Diff_Tail(pa[1], pc[1], acx),
       bcxtail |-> Two_Diff_Tail(pb[1], pc[1], bcx),
       acytail |-> Two_Diff_Tail(pa[2], pc[2], acy),
       bcytail |-> Two_Diff_Tail(pb[2], pc[2], bcy),
       B |-> Diff_Of(Two_Product(acx, bcy), Two_Product(acy, bcx))]

\* <<acxtail, bcytail, acytail, bcxtail>>
TailsOf(l) == <<l.acxtail, l.bcytail, l.acytail, l.bcxtail>>

\* det = estimate(4, B) against ccwerrboundB * detsum.
TierB(t, l, detsum) ==
  IF Conclusive(estimate(l.B), FMul(t.ccwerrboundB, detsum))
  THEN Decided(Ret(estimate(l.B), "B", detsum, <<>>, <<>>))
  ELSE Undecided

\* A faulty test of the tails: they are never found to be zero.
TailsNeverZero(l) == FALSE

\* (acxtail == 0.0) && (acytail == 0.0) && (bcxtail == 0.0) && (bcytail == 0.0)
TailsAllZero(l) == l.acxtail = 0 /\ l.acytail = 0 /\ l.bcxtail = 0 /\ l.bcytail = 0

TierTails(l, detsum) ==
  IF TailsAllZero(l)
  THEN Decided(Ret(estimate(l.B), "tails", detsum, TailsOf(l), <<>>))
  ELSE Undecided

\* The corrected det against ccwerrboundC * detsum + resulterrbound * |det|.
TierC(t, l, det, detsum) ==
  LET errbound == FAdd(FMul(t.ccwerrboundC, detsum), FMul(t.resulterrbound, Absolute(det)))
      corrected == FAdd(det, FSub(FAdd(FMul(l.acx, l.bcytail), FMul(l.bcy, l.acxtail)),
                                  FAdd(FMul(l.acy, l.bcxtail), FMul(l.bcx, l.acytail))))
  IN  IF Conclusive(corrected, errbound)
      THEN Decided(Ret(corrected, "C", detsum, TailsOf(l), <<>>))
      ELSE Undecided

\* C1, C2 and D, and return(D[Dlength - 1]).
TierD(l, detsum) ==
  LET C1 == fast_expansion_sum_zeroelim(l.B,
              Diff_Of(Two_Product(l.acxtail, l.bcy), Two_Product(l.acytail, l.bcx)))
      C2 == fast_expansion_sum_zeroelim(C1.h,
              Diff_Of(Two_Product(l.acx, l.bcytail), Two_Product(l.acy, l.bcxtail)))
      D  == fast_expansion_sum_zeroelim(C2.h,
              Diff_Of(Two_Product(l.acxtail, l.bcytail), Two_Product(l.acytail, l.bcxtail)))
  IN  Decided(Ret(Rd(D.h, D.len - 1), "D", detsum, TailsOf(l), <<C1.len, C2.len, D.len>>))

\* What tier number k does on pa, pb, pc.
Tier(k, t, pa, pb, pc, detleft, detright) ==
  IF k = 1 THEN TierA(t, detleft, detright)
  ELSE IF k = 2 THEN TierB(t, AdaptLocals(pa, pb, pc), Detsum(detleft, detright))
  ELSE IF k = 3 THEN TierTails(AdaptLocals(pa, pb, pc), Detsum(detleft, detright))
  ELSE IF k = 4 THEN TierC(t, AdaptLocals(pa, pb, pc), estimate(AdaptLocals(pa, pb, pc).B),
                           Detsum(detleft, detright))
  ELSE TierD(AdaptLocals(pa, pb, pc), Detsum(detleft, detright))

\* orient2d is called: nothing of it has run.
EnterOrient2d(P) ==
  /\ ctl = "idle"
  /\ \E pa \in P, pb \in P, pc \in P :
       /\ ctl' = "run"
       /\ op' = "orient2d"
       /\ args' = <<pa, pb, pc>>
       /\ out' = <<>>
       /\ tried' = <<>>
  /\ UNCHANGED <<coef, memo, loop, mesh, gw, frame>>

\* The call runs the tier after the last one it has executed, and returns
\* from it or falls through.
RunTier ==
  /\ ctl = "run"
  /\ LET k == Len(tried) + 1
         r == Tier(k, coef, args[1], args[2], args[3],
                   Detleft(args[1], args[2], args[3]), Detright(args[1], args[2], args[3]))
     IN  /\ tried' = Append(tried, [tier |-> TierNames[k], conclusive |-> r.conclusive])
         /\ ctl' = IF r.conclusive THEN "ret" ELSE "run"
         /\ out' = r.ret
  /\ UNCHANGED <<coef, op, args, memo, loop, mesh, gw, frame>>

\* The caller takes the result of the call.
Leave ==
  /\ ctl = "ret"
  /\ tried # <<>>
  /\ ctl' = "idle"
  /\ op' = "none"
  /\ args' = <<>>
  /\ out' = <<>>
  /\ tried' = <<>>
  /\ UNCHANGED <<coef, memo, loop, mesh, gw, frame>>

\* orient2d tier by tier on many points.
NextTiers ==
  \/ Construct
  \/ EnterOrient2d(Points(OrientCoords))
  \/ RunTier
  \/ Leave

\* The call in progress executes one more tier, whatever the tier does.
OneMoreTier ==
  /\ ctl = "run"
  /\ \E c \in BOOLEAN :
       tried' = Append(tried, [tier |-> TierNames[Len(tried) + 1], conclusive |-> c])

\* A call is sequential code: while it has not returned it executes its next
\* tier.
SpecTiers == Init /\ [][NextTiers]_vars /\ WF_tried(OneMoreTier)


(***************************************************************************)
(* The caller of the list.  A member function runs in one step; after a    *)
(* call that went wrong the caller makes no other.                         *)
(***************************************************************************)
\* The calls are followed as long as nActiveNodes stays within this distance
\* of 0.
CountBound == 2 * MaxNodes

\* The call of name on node n has left the list L, with the nodes act and
\* bnd present that were inserted as active and as boundary nodes.
Called(name, n, L, act, bnd) ==
  /\ list.fault = "none"
  /\ L.nActiveNodes \in -CountBound..CountBound
  /\ list' = L
  /\ call' = [op |-> name, node |-> n, before |-> list, active |-> act, bound |-> bnd]
  /\ UNCHANGED <<predicates, gw>>

\* The nodes the free store can give.
Free == NodeIds \ list.live

InsertAtFront ==
  \E n \in Free :
    Called("insertAtFront", n, insertAtFront(list, n), call.active \cup {n}, call.bound)

InsertAtActiveBack ==
  \E n \in Free :
    Called("insertAtActiveBack", n, insertAtActiveBack(list, n),
           call.active \cup {n}, call.bound)

InsertAtBoundFront ==
  \E n \in Free :
    Called("insertAtBoundFront", n, insertAtBoundFront(list, n),
           call.active, call.bound \cup {n})

\* The node removed is the one the function deletes.
Removed(name, temp, L) ==
  Called(name, temp, L, call.active \ {temp}, call.bound \ {temp})

\* removeFromFront, called when the list has a node.
RemoveFromFront ==
  /\ call.active \cup call.bound # {}
  /\ Removed("removeFromFront", list.first, removeFromFront(list))

\* removeFromActiveBack, called when the active part has a node.
RemoveFromActiveBack ==
  /\ call.active # {}
  /\ Removed("removeFromActiveBack", list.lastactive, removeFromActiveBack(list))

\* removeFromBoundFront, called when the boundary part has a node.
RemoveFromBoundFront ==
  /\ call.bound # {}
  /\ Removed("removeFromBoundFront",
             IF Usable(list, list.lastactive) THEN list.next[list.lastactive] ELSE 0,
             removeFromBoundFront(list))

\* The move of a node of the list; the caller keeps no account of the parts.
Moved(name, mvnode, L) == Called(name, mvnode, L, {}, {})

MoveToBack == \E mvnode \in list.live : Moved("moveToBack", mvnode, moveToBack(list, mvnode))

MoveToActiveBack ==
  \E mvnode \in list.live : Moved("moveToActiveBack", mvnode, moveToActiveBack(list, mvnode))

MoveToBoundFront ==
  \E mvnode \in list.live : Moved("moveToBoundFront", mvnode, moveToBoundFront(list, mvnode))

NextList ==
  \/ InsertAtFront
  \/ InsertAtActiveBack
  \/ InsertAtBoundFront
  \/ RemoveFromFront
  \/ RemoveFromActiveBack
  \/ RemoveFromBoundFront

\* Insertions and removals on a list that starts empty.
SpecList == Init /\ [][NextList]_vars

NextMoves ==
  \/ InsertAtFront
  \/ InsertAtActiveBack
  \/ InsertAtBoundFront
  \/ MoveToBack
  \/ MoveToActiveBack
  \/ MoveToBoundFront

\* Insertions and moves on a list that starts empty.
SpecMoves == Init /\ [][NextMoves]_vars

(***************************************************************************)
(* A run of InitialGW, statement by statement.                             *)
(***************************************************************************)
\* A step of main that leaves g.
GWStep(g) ==
  /\ gw' = g
  /\ UNCHANGED <<predicates, mesh>>

\* The utility is started.
GWStart ==
  \E argc \in 1..3, openable \in SUBSET Files, valid \in BOOLEAN :
    /\ gw.pc = "none"
    /\ GWStep([NotRun EXCEPT !.pc = "usage", !.argc = argc,
                              !.openable = openable, !.valid = valid])

\* if(argc != 2) { usage; exit(1); }
GWUsage ==
  /\ gw.pc = "usage"
  /\ GWStep(IF gw.argc # 2 THEN exit(gw, 1) ELSE [gw EXCEPT !.pc = "Inp0"])

\* std::ifstream Inp0(argv[1]); if (!Inp0) ...; the names and the parameters
\* are read.
GWControl ==
  /\ gw.pc = "Inp0"
  /\ GWStep(LET g == OpenChecked(gw, "control", "Inp1")
            IN  IF g.pc = "exit" THEN g ELSE [g EXCEPT !.read = @ \cup {"parameters"}])

GWInp1 ==
  /\ gw.pc = "Inp1"
  /\ GWStep(OpenChecked(gw, Inputs[1], "Inp2"))

GWInp2 ==
  /\ gw.pc = "Inp2"
  /\ GWStep(OpenChecked(gw, Inputs[2], "Inp3"))

GWInp3 ==
  /\ gw.pc = "Inp3"
  /\ GWStep(OpenChecked(gw, Inputs[3], "Inp4"))

\* std::ifstream Inp4(names[3]); if (!Inp3) { report names[3]; exit(2); }
\* the stream tested is Inp3, on the file Inputs[3].
GWInp4 ==
  /\ gw.pc = "Inp4"
  /\ GWStep(OpenChecked([gw EXCEPT !.Inp4 = IF Inputs[4] \in gw.openable THEN "open" ELSE "failed"],
                        Inputs[3], "headers"))

\* The output files are created and the headers of the three grids read.
GWHeaders ==
  /\ gw.pc = "headers"
  /\ GWStep([gw EXCEPT !.pc = "soil",
                       !.read = @ \cup {"DEM header", "Flow Accumulations header",
                                        "Flow Directions header"}])

\* Inp4 >> NS >> NM; ...: nothing is extracted from a stream that failed to
\* open, and the variables printed next are as they were.
GWSoil ==
  /\ gw.pc = "soil"
  /\ GWStep([gw EXCEPT !.pc = "grids",
                       !.read = IF gw.Inp4 = "open" THEN @ \cup {"soil parameters"} ELSE @])

\* The grids are read and cross-checked: exit(2) on a mismatch; otherwise the
\* ground water table is computed and written and main returns 0.
GWGrids ==
  /\ gw.pc = "grids"
  /\ GWStep(exit([gw EXCEPT !.read = @ \cup {"grid data"}], IF gw.valid THEN 0 ELSE 2))

NextGW ==
  \/ GWStart
  \/ GWUsage
  \/ GWControl
  \/ GWInp1
  \/ GWInp2
  \/ GWInp3
  \/ GWInp4
  \/ GWHeaders
  \/ GWSoil
  \/ GWGrids

\* One run of InitialGW.
SpecGW == Init /\ [][NextGW]_vars

(***************************************************************************)
(* A caller that keeps mesh nodes on the list: nodes with the flags of     *)
(* active nodes are inserted in the active part, the others in the         *)
(* boundary part, and every member function may be called at any time.     *)
(* The caller goes on for as long as the calls leave a list in order.      *)
(***************************************************************************)
\* The call of name on node n of a list in order has left the list L.
OnMesh(name, n, L) == WellFormed(list) /\ Moved(name, n, L)

ActiveFlags == {kNonBoundary, kStream}

BoundaryFlags == {kClosedBoundary, kOpenBoundary}

CallInsertAtFront ==
  \E n \in Free, value \in ActiveFlags :
    OnMesh("insertAtFront", n, WithData(insertAtFront(list, n), n, value))

CallInsertAtActiveBack ==
  \E n \in Free, value \in ActiveFlags :
    OnMesh("insertAtActiveBack", n, WithData(insertAtActiveBack(list, n), n, value))

CallInsertAtBoundFront ==
  \E n \in Free, value \in BoundaryFlags :
    OnMesh("insertAtBoundFront", n, WithData(insertAtBoundFront(list, n), n, value))

CallRemoveFromFront ==
  /\ ~isEmpty(list)
  /\ OnMesh("removeFromFront", list.first, removeFromFront(list))

\* removeFromActiveBack on a list that has a node
CallRemoveFromActiveBack ==
  /\ ~isEmpty(list)
  /\ OnMesh("removeFromActiveBack", list.lastactive, removeFromActiveBack(list))

\* removeFromBoundFront on a list that has a node
CallRemoveFromBoundFront ==
  /\ ~isEmpty(list)
  /\ OnMesh("removeFromBoundFront", list.lastactive, removeFromBoundFront(list))

CallRemoveNext == \E ptr \in list.live : OnMesh("removeNext", ptr, removeNext(list, ptr))

CallRemovePrev == \E ptr \in list.live : OnMesh("removePrev", ptr, removePrev(list, ptr))

CallMoveToBack ==
  \E mvnode \in list.live : OnMesh("moveToBack", mvnode, moveToBack(list, mvnode))

CallMoveToActiveBack ==
  \E mvnode \in list.live : OnMesh("moveToActiveBack", mvnode, moveToActiveBack(list, mvnode))

CallMoveToBoundFront ==
  \E mvnode \in list.live : OnMesh("moveToBoundFront", mvnode, moveToBoundFront(list, mvnode))

NextMesh ==
  \/ CallInsertAtFront
  \/ CallInsertAtActiveBack
  \/ CallInsertAtBoundFront
  \/ CallRemoveFromFront
  \/ CallRemoveFromActiveBack
  \/ CallRemoveFromBoundFront
  \/ CallRemoveNext
  \/ CallRemovePrev
  \/ CallMoveToBack
  \/ CallMoveToActiveBack
  \/ CallMoveToBoundFront

\* Insertions, removals and moves of mesh nodes on a list that starts empty.
SpecMesh == Init /\ [][NextMesh]_vars

(***************************************************************************)
(* incircle on points that incircleadapt cannot decide before its last     *)
(* stage, followed statement by statement from `finnow = fin1' to the      *)
(* return of finnow[finlength - 1].                                        *)
(***************************************************************************)
\* adx .. cdy and the six tails, as incircleadapt computes them on entry.
EntryScalars(pa, pb, pc, pd) ==
  [adx |-> FSub(pa[1], pd[1]), bdx |-> FSub(pb[1], pd[1]), cdx |-> FSub(pc[1], pd[1]),
   ady |-> FSub(pa[2], pd[2]), bdy |-> FSub(pb[2], pd[2]), cdy |-> FSub(pc[2], pd[2]),
   adxtail |-> Two_Diff_Tail(pa[1], pd[1], FSub(pa[1], pd[1])),
   adytail |-> Two_Diff_Tail(pa[2], pd[2], FSub(pa[2], pd[2])),
   bdxtail |-> Two_Diff_Tail(pb[1], pd[1], FSub(pb[1], pd[1])),
   bdytail |-> Two_Diff_Tail(pb[2], pd[2], FSub(pb[2], pd[2])),
   cdxtail |-> Two_Diff_Tail(pc[1], pd[1], FSub(pc[1], pd[1])),
   cdytail |-> Two_Diff_Tail(pc[2], pd[2], FSub(pc[2], pd[2]))]

\* The locals when the test of the corrected det against errbound has failed:
\* bc, ca, ab, the sum fin1 of length finlength, the differences and tails.
EntryLocals(pa, pb, pc, pd) ==
  LET L == Run([NoLocals EXCEPT !.s = EntryScalars(pa, pb, pc, pd)], incircleadapt_build, 1)
  IN  L

\* statement i is finlength = fast_expansion_sum_zeroelim(.., finother)
Accumulates(i) == i.op = "fast_expansion_sum_zeroelim" /\ i.xlen = "finlength"

\* The call passes the tests of stages A, B and C and reaches `finnow = fin1'.
\* big is what the call returns when run in one step.
EnterExact(P, D) ==
  /\ ctl = "idle"
  /\ frame.pc = "none"
  /\ \E pa \in P, pb \in P, pc \in P, pd \in D :
       LET big == incircle(coef, pa, pb, pc, pd)
       IN  /\ big.tier = "D"
           /\ args' = <<pa, pb, pc, pd>>
           /\ frame' = [pc |-> "exact",
                        L |-> EntryLocals(pa, pb, pc, pd),
                        todo |-> incircleadapt_exact,
                        sums |-> 0,
                        swapping |-> FALSE,
                        written |-> "fin1",
                        len |-> big.finlength - big.finlength,
                        big |-> big]
  /\ ctl' = "run"
  /\ op' = "incircle"
  /\ UNCHANGED <<coef, out, memo, tried, loop, mesh, gw>>

\* An if statement: the call goes on with the branch taken.
Branch ==
  /\ frame.pc = "exact"
  /\ frame.todo # <<>>
  /\ ~frame.L.undef
  /\ Head(frame.todo).op = "if"
  /\ LET i == Head(frame.todo)
         taken == IF \E k \in 1..Len(i.c) : frame.L.s[i.c[k]] # 0 THEN i.then ELSE i.else
     IN  frame' = [frame EXCEPT !.todo = taken \o Tail(@)]
  /\ UNCHANGED <<coef, ctl, op, args, out, memo, tried, loop, mesh, gw>>

\* Any other statement.  A sum into finother is recorded: the array it wrote
\* and the length it returned.
Statement ==
  /\ frame.pc = "exact"
  /\ frame.todo # <<>>
  /\ ~frame.L.undef
  /\ Head(frame.todo).op # "if"
  /\ LET i == Head(frame.todo)
         M == Exec(frame.L, i)
     IN  frame' = [frame EXCEPT
                     !.L = M,
                     !.todo = Tail(@),
                     !.sums = IF Accumulates(i) /\ @ < 2 THEN @ + 1 ELSE @,
                     !.swapping = IF Accumulates(i) THEN TRUE
                                  ELSE IF i = Point("finother", "finswap") THEN FALSE
                                  ELSE @,
                     !.written = IF Accumulates(i) /\ ~M.undef
                                 THEN Resolve(frame.L, i.x) ELSE @,
                     !.len = IF Accumulates(i) /\ ~M.undef THEN M.s.finlength ELSE @]
  /\ UNCHANGED <<coef, ctl, op, args, out, memo, tried, loop, mesh, gw>>

\* return finnow[finlength - 1]; the frame keeps the array that was read.
ReturnExact ==
  /\ frame.pc = "exact"
  /\ frame.todo = <<>> \/ frame.L.undef
  /\ LET L == frame.L
         r == IF L.undef
              THEN IRet(Unwritten, "D", frame.big.permanent, frame.big.tails, L)
              ELSE IRet(Rd(L.a[Resolve(L, "finnow")], L.s.finlength - 1), "D",
                        frame.big.permanent, frame.big.tails, L)
     IN  \E o \in Outcomes(r) :
           /\ out' = o
           /\ frame' = [pc |-> "ret", read |-> Resolve(L, "finnow"),
                        index |-> IF L.undef THEN -1 ELSE L.s.finlength - 1,
                        sums |-> frame.sums, written |-> frame.written,
                        len |-> frame.len, big |-> frame.big]
  /\ ctl' = "ret"
  /\ UNCHANGED <<coef, op, args, memo, tried, loop, mesh, gw>>

\* The caller takes the result.
LeaveExact ==
  /\ frame.pc = "ret"
  /\ ctl = "ret"
  /\ ctl' = "idle"
  /\ op' = "none"
  /\ args' = <<>>
  /\ out' = <<>>
  /\ frame' = NoFrame
  /\ UNCHANGED <<coef, memo, tried, loop, mesh, gw>>

NextExact ==
  \/ Construct
  \/ EnterExact(CirclePoints, CircleCentres)
  \/ Branch
  \/ Statement
  \/ ReturnExact
  \/ LeaveExact

SpecExact == Init /\ [][NextExact]_vars
(***************************************************************************)
(* The exact determinants, in integer arithmetic.  The coordinates are     *)
(* whole multiples of the unit u.                                          *)
(***************************************************************************)
\* (ax - cx)(by - cy) - (ay - cy)(bx - cx), in units of u * u.
ExactOrient(u, pa, pb, pc) ==
  ((pa[1] - pc[1]) \div u) * ((pb[2] - pc[2]) \div u)
    - ((pa[2] - pc[2]) \div u) * ((pb[1] - pc[1]) \div u)

\* alift (bdx cdy - cdx bdy) + blift (cdx ady - adx cdy) + clift (adx bdy - bdx ady)
\* from the six differences d, in units of u^4.
ExactLifted(d) ==
  (d.adx * d.adx + d.ady * d.ady) * (d.bdx * d.cdy - d.cdx * d.bdy)
    + (d.bdx * d.bdx + d.bdy * d.bdy) * (d.cdx * d.ady - d.adx * d.cdy)
    + (d.cdx * d.cdx + d.cdy * d.cdy) * (d.adx * d.bdy - d.bdx * d.ady)

ExactIncircle(u, pa, pb, pc, pd) ==
  ExactLifted([adx |-> (pa[1] - pd[1]) \div u, ady |-> (pa[2] - pd[2]) \div u,
               bdx |-> (pb[1] - pd[1]) \div u, bdy |-> (pb[2] - pd[2]) \div u,
               cdx |-> (pc[1] - pd[1]) \div u, cdy |-> (pc[2] - pd[2]) \div u])

\* orient2d has returned.
Oriented == ctl = "ret" /\ op = "orient2d"

(***************************************************************************)
(* C1.  For points with integer coordinates, the sign of what orient2d     *)
(* returns is the sign of the exact determinant: positive for a            *)
(* counterclockwise triple, negative for a clockwise one, and exactly 0    *)
(* for a collinear one, whichever return statement is taken.               *)
(***************************************************************************)
C1_OrientSignOfIntegers ==
  (Oriented /\ IntegerCoords(args)) =>
    Sign(out.ret) = Sign(ExactOrient(One, args[1], args[2], args[3]))

\* Three different collinear points with integer coordinates whose
\* differences have tails, so that only the last return statement, that of
\* the exact expansion D, can give the answer: it is 0.
C1_CollinearAtLastTier ==
  /\ Oriented
  /\ IntegerCoords(args)
  /\ args[1] # args[2] /\ args[2] # args[3] /\ args[1] # args[3]
  /\ ExactOrient(One, args[1], args[2], args[3]) = 0
  /\ out.tier = "D"
  /\ out.ret = 0

(***************************************************************************)
(* C3.  As the claim states it: for every input, the sign of what orient2d *)
(* returns is the sign of the exact determinant.  The coordinates given    *)
(* are whole multiples of Tiny.                                            *)
(***************************************************************************)
C3_OrientSignOfEveryInput ==
  Oriented => Sign(out.ret) = Sign(ExactOrient(Tiny, args[1], args[2], args[3]))

(***************************************************************************)
(* C4.  As the claim states it: orient2d(a, b, c) = -orient2d(b, a, c),    *)
(* and the rotations orient2d(b, c, a) and orient2d(c, a, b) return what   *)
(* orient2d(a, b, c) returns.                                              *)
(***************************************************************************)
C4_AlternatingValue ==
  Oriented =>
    /\ out.ret = -orient2d(coef, args[2], args[1], args[3]).ret
    /\ out.ret = orient2d(coef, args[2], args[3], args[1]).ret
    /\ out.ret = orient2d(coef, args[3], args[1], args[2]).ret

(***************************************************************************)
(* C10.  DifferenceOfProductsOfDifferences(pa[0], pc[0], pb[1], pc[1],     *)
(* pa[1], pc[1], pb[0], pc[0]) takes the return statement that             *)
(* orient2d(pa, pb, pc) takes and returns the same value, with the same    *)
(* detsum, tails and lengths of expansions on the way.                     *)
(***************************************************************************)
C10_SameAsOrient2d ==
  Oriented => out = DiffOfProds(coef, OrientTerms(args[1], args[2], args[3]))

\* A call of orient2d that the corrected estimate decides, after the tests
\* against ccwerrboundA and ccwerrboundB have failed.
C10_DecidedByCorrection == Oriented /\ out.tier = "C" /\ out.ret # 0

\* incircle has returned.
Encircled == ctl = "ret" /\ op = "incircle"

(***************************************************************************)
(* C2.  For points with integer coordinates, a, b, c counterclockwise, the *)
(* sign of what incircle returns is the sign of the exact determinant:     *)
(* positive for d inside the circle through a, b, c, negative for d        *)
(* outside, exactly 0 for d on it; and incircle returns exactly 0 when     *)
(* permanent is 0.                                                         *)
(***************************************************************************)
C2_IncircleSignOfIntegers ==
  (Encircled /\ IntegerCoords(args)) =>
    /\ ExactOrient(One, args[1], args[2], args[3]) > 0 =>
         Sign(out.ret) = Sign(ExactIncircle(One, args[1], args[2], args[3], args[4]))
    /\ out.permanent = 0 => out.ret = 0

\* Four different points of the unit circle, a, b, c counterclockwise: the
\* first test and the test of the estimate both fail, the tails are zero and
\* incircleadapt returns 0.
C2_CocircularAtZeroTails ==
  /\ Encircled
  /\ IntegerCoords(args)
  /\ ExactOrient(One, args[1], args[2], args[3]) > 0
  /\ ExactIncircle(One, args[1], args[2], args[3], args[4]) = 0
  /\ args[4] \notin {args[1], args[2], args[3]}
  /\ out.permanent > 0
  /\ out.tier = "tails"
  /\ out.ret = 0

(***************************************************************************)
(* C9.  No array of the adaptive predicates is too small.  In              *)
(* orient2dadapt and AdaptDiffOfProdsOfDiffs C1length <= 8, C2length <= 12 *)
(* and Dlength <= 16.  In incircleadapt every array is declared at least   *)
(* as long as the longest expansion that the lengths of the summands and   *)
(* factors allow to be stored in it, no more slots of it are written than  *)
(* that, and finlength is at most 1152.                                    *)
(***************************************************************************)
C9_ArraysLargeEnough ==
  /\ (ctl = "ret" /\ op \in {"orient2d", "DifferenceOfProductsOfDifferences"}
        /\ out.tier = "D") =>
       /\ out.lens[1] <= 8
       /\ out.lens[2] <= out.lens[1] + 4 /\ out.lens[2] <= 12
       /\ out.lens[3] <= out.lens[2] + 4 /\ out.lens[3] <= 16
  /\ Encircled =>
       /\ \A x \in DOMAIN out.need :
            out.peak[x] <= out.need[x] /\ out.need[x] <= Capacity[x]
       /\ out.finlength <= out.room
       /\ out.room <= 1152

\* A call of incircle with all six tails nonzero that goes on to the end of
\* incircleadapt: the last sum may be as long as fin1 and fin2 are.
C9_AllTailsNonzero ==
  /\ Encircled
  /\ out.tier = "D"
  /\ \A i \in 1..6 : out.tails[i] # 0
  /\ out.room = 1152
  /\ out.need["temp48"] = 48 /\ out.need["temp64"] = 64
  /\ ~out.undef

Written == {f \in DOMAIN coef : coef[f] # Unwritten}

(***************************************************************************)
(* C6, amended.  The fifteen coefficients (epsilon, splitter,              *)
(* resulterrbound and the bounds A, B, C of four predicates) are unwritten *)
(* and no method has been called while the constructor has not run, and    *)
(* are what exactinit made them ever after, whatever has been called.      *)
(***************************************************************************)
C6_CoefficientsOnlyByExactinit ==
  /\ ctl = "new" => (Written = {} /\ op = "none")
  /\ ctl # "new" => (coef = exactinit /\ Cardinality(Written) = 15)

\* incircle has gone through all of incircleadapt and returned.
C6_AfterIncircle == Encircled /\ out.tier = "D" /\ coef = exactinit

\* C6 as the claim states it: the coefficients that exactinit writes and the
\* methods leave alone are thirteen.
C6_ThirteenCoefficients ==
  /\ ctl = "new" => (Written = {} /\ op = "none")
  /\ ctl # "new" => (coef = exactinit /\ Cardinality(Written) = 13)

\* The zero-eliminating operations.
Zeroelims ==
  { "grow_expansion_zeroelim", "expansion_sum_zeroelim1", "expansion_sum_zeroelim2",
    "fast_expansion_sum_zeroelim", "linear_expansion_sum_zeroelim",
    "scale_expansion_zeroelim" }

(***************************************************************************)
(* C7.  A zero-eliminating operation returns a length of at least 1 and    *)
(* has written the slots h[0] .. h[length - 1].                            *)
(***************************************************************************)
C7_ZeroelimKeepsAComponent ==
  (ctl = "ret" /\ op \in Zeroelims) =>
    /\ out.len >= 1
    /\ out.len <= Len(out.h)
    /\ \A i \in 1..out.len : out.h[i] \notin {Unwritten, Beyond}

\* A sum of nonzero components that is zero: the one component kept is 0.
C7_ZeroIsKept ==
  /\ ctl = "ret"
  /\ op = "fast_expansion_sum_zeroelim"
  /\ args[1][1] # 0
  /\ args[2][1] # 0
  /\ out.len = 1
  /\ out.h = <<0>>

\* The sums that keep zero components and those that do not.
Sums == {"expansion_sum", "fast_expansion_sum", "linear_expansion_sum"}

SumZeroelims ==
  { "expansion_sum_zeroelim1", "expansion_sum_zeroelim2", "fast_expansion_sum_zeroelim",
    "linear_expansion_sum_zeroelim" }

(***************************************************************************)
(* C8.  The sums return elen + flen, grow_expansion elen + 1 and           *)
(* scale_expansion 2 elen; their zero-eliminating variants return that at  *)
(* most; and none writes h at an index that is not below that bound.       *)
(***************************************************************************)
C8_LengthsBounded ==
  ctl = "ret" =>
    /\ op \in Sums =>
         out.len = Len(args[1]) + Len(args[2]) /\ Len(out.h) <= Len(args[1]) + Len(args[2])
    /\ op \in SumZeroelims =>
         out.len <= Len(args[1]) + Len(args[2]) /\ Len(out.h) <= Len(args[1]) + Len(args[2])
    /\ op = "grow_expansion" =>
         out.len = Len(args[1]) + 1 /\ Len(out.h) <= Len(args[1]) + 1
    /\ op = "grow_expansion_zeroelim" =>
         out.len <= Len(args[1]) + 1 /\ Len(out.h) <= Len(args[1]) + 1
    /\ op = "scale_expansion" =>
         out.len = 2 * Len(args[1]) /\ Len(out.h) <= 2 * Len(args[1])
    /\ op = "scale_expansion_zeroelim" =>
         out.len <= 2 * Len(args[1]) /\ Len(out.h) <= 2 * Len(args[1])

\* fast_expansion_sum_zeroelim has found no zero to eliminate in the sum of
\* an expansion of two components and one of one: it returns elen + flen.
C8_BoundAttained ==
  /\ ctl = "ret"
  /\ op = "fast_expansion_sum_zeroelim"
  /\ Len(args[1]) = 2
  /\ Len(args[2]) = 1
  /\ out.len = Len(args[1]) + Len(args[2])

\* The components h[0] .. h[length - 1] that an expansion operation returned.
Components_of(r) == SubSeq(r.h, 1, r.len)

\* No component is exactly 0, unless the expansion is the single component 0.
NoZeroComponent(h) == Len(h) = 1 \/ \A i \in 1..Len(h) : h[i] # 0

(***************************************************************************)
(* C19.  What grow_expansion_zeroelim, fast_expansion_sum_zeroelim,        *)
(* linear_expansion_sum_zeroelim and scale_expansion_zeroelim return has   *)
(* no component that is exactly 0, unless it is the single component 0.    *)
(***************************************************************************)
C19_NoZeroComponent ==
  (ctl = "ret" /\ op \in { "grow_expansion_zeroelim", "fast_expansion_sum_zeroelim",
                           "linear_expansion_sum_zeroelim", "scale_expansion_zeroelim" }) =>
    NoZeroComponent(Components_of(out))

\* scale_expansion_zeroelim has eliminated a zero from an expansion that still
\* has more than one component.
C19_ZeroEliminated ==
  /\ ctl = "ret"
  /\ op = "scale_expansion_zeroelim"
  /\ out.len > 1
  /\ out.len < 2 * Len(args[1])
  /\ \E i \in 1..(2 * Len(args[1])) : scale_expansion(args[1], args[2]).h[i] = 0

(***************************************************************************)
(* C20.  As the claim states it: what expansion_sum_zeroelim1 and          *)
(* expansion_sum_zeroelim2 return has no component that is exactly 0,      *)
(* unless it is the single component 0, and both return the same           *)
(* components for the same inputs.                                         *)
(***************************************************************************)
C20_BothEliminateZeros ==
  (ctl = "ret" /\ op \in {"expansion_sum_zeroelim1", "expansion_sum_zeroelim2"}) =>
    /\ NoZeroComponent(Components_of(out))
    /\ Components_of(expansion_sum_zeroelim1(args[1], args[2]))
         = Components_of(expansion_sum_zeroelim2(args[1], args[2]))

\* a * b is a tREAL: FMul(a, b) is not rounded.
ExactProduct(a, b) ==
  LET x == MulExact(Abs(a), Abs(b))
  IN  x[2] = 0 /\ IsFloat(x[1])

\* Neither product of orient2d(pa, pb, pc) is rounded.
ExactProducts(pa, pb, pc) ==
  /\ ExactProduct(FSub(pa[1], pc[1]), FSub(pb[2], pc[2]))
  /\ ExactProduct(FSub(pa[2], pc[2]), FSub(pb[1], pc[1]))

\* orient2d has returned from one of its own return statements.
FastPath == out.tier \in {"sign", "A"}

\* What C16 says of a call that returned r, given detleft and detright.
FastPathWhen(r, detleft, detright, boundA) ==
  LET det == FSub(detleft, detright)
      sum == FAdd(Absolute(detleft), Absolute(detright))
      fast == r.tier \in {"sign", "A"}
  IN  /\ fast <=> Absolute(det) >= FMul(boundA, sum)
      /\ fast => r.ret = det
      /\ ~fast => (r.detsum = sum /\ sum > 0)

(***************************************************************************)
(* C16.  With exact products and 0 < ccwerrboundA < 1, orient2d returns    *)
(* det from one of its own return statements exactly when                  *)
(* |det| >= ccwerrboundA * (|detleft| + |detright|), the sum and the       *)
(* product being the rounded tREAL operations of the code; the returns     *)
(* taken on the signs of detleft and detright are cases of it; otherwise   *)
(* orient2dadapt is called, with detsum = |detleft| + |detright| > 0.      *)
(***************************************************************************)
C16_FastPathExactlyWhenConclusive ==
  (/\ Oriented
   /\ ExactProducts(args[1], args[2], args[3])
   /\ 0 < coef.ccwerrboundA /\ coef.ccwerrboundA < One) =>
    FastPathWhen(out, Detleft(args[1], args[2], args[3]),
                 Detright(args[1], args[2], args[3]), coef.ccwerrboundA)

\* orient2dadapt is called on exact, nonzero products of the same sign.
C16_AdaptCalledOnExactProducts ==
  /\ Oriented
  /\ ExactProducts(args[1], args[2], args[3])
  /\ ~FastPath
  /\ out.detsum > 0

\* The odd numbers up to n.
OddUpTo(n) == {i \in 1..n : i % 2 = 1}

\* epsilon and splitter when exactinit has returned, p = FBits being the
\* number of bits of a significand.
ExactinitExit ==
  /\ loop.passes = FBits
  /\ coef.epsilon * Pow2(FBits) = Lit(1)
  /\ FAdd(Lit(1), coef.epsilon) = Lit(1)
  /\ FAdd(Lit(1), 2 * coef.epsilon) # Lit(1)
  /\ loop.doubling = OddUpTo(loop.passes)
  /\ coef.splitter = Lit(Pow2((FBits + 1) \div 2)) + Lit(1)
  /\ coef = exactinit

(***************************************************************************)
(* C18.  With a significand of p bits and round-to-nearest-even the loop   *)
(* of exactinit ends; then epsilon is 2^-p, the largest power of two with  *)
(* 1.0 + epsilon == 1.0, splitter has been doubled in the first pass and   *)
(* every other pass after it and then incremented:                         *)
(* splitter = 2^ceil(p/2) + 1.                                             *)
(***************************************************************************)
C18_LoopEndsWithEpsilonAndSplitter ==
  /\ <>(loop.at \in {"after", "done"})
  /\ [](loop.at = "done" => ExactinitExit)

\* The constructor has returned after FBits passes of the loop.
C18_ConstructorReturned == ctl = "idle" /\ loop.at = "done" /\ loop.passes = FBits

\* The tiers of TierNames from the first to number n.
FirstTiers(n) == [i \in 1..n |-> TierNames[i]]

\* What C17 says of the tiers executed so far by a call of orient2d.
Escalating ==
  /\ Len(tried) <= Len(TierNames)
  /\ [i \in 1..Len(tried) |-> tried[i].tier] = FirstTiers(Len(tried))
  /\ \A i \in 1..Len(tried) : tried[i].conclusive <=> (i = Len(tried) /\ ctl = "ret")
  /\ (ctl = "ret" /\ tried # <<>>) =>
       /\ out = orient2d(coef, args[1], args[2], args[3])
       /\ out.tier \in {tried[Len(tried)].tier} \cup
                       (IF Len(tried) = 1 THEN {"sign"} ELSE {})
  /\ (Len(tried) = Len(TierNames)) =>
       \E i \in 1..4 : TailsOf(AdaptLocals(args[1], args[2], args[3]))[i] # 0

(***************************************************************************)
(* C17.  Every call of orient2d returns, from exactly one tier; the tiers  *)
(* are executed in the order fast check, ccwerrboundB check, zero tails,   *)
(* ccwerrboundC check, exact D, each only after all the tiers before it    *)
(* have been executed without returning; D is reached only with a nonzero  *)
(* tail.                                                                   *)
(***************************************************************************)
C17_TiersEscalate ==
  /\ []Escalating
  /\ (ctl = "run") ~> (ctl = "ret")

\* A call has returned from the exact tier after the four tiers before it.
C17_ReturnedFromExactTier == ctl = "ret" /\ Len(tried) = 5 /\ out.tier = "D"


(***************************************************************************)
(* The two parts of a tMeshList.                                           *)
(***************************************************************************)
\* The list is a chain of k active nodes, which are the nodes act, followed
\* by the nodes bnd.
TwoParts(L, s, k, act, bnd) ==
  /\ L.fault = "none"
  /\ 0 \notin Nodes(s)
  /\ Len(s) = k + Cardinality(bnd)
  /\ {s[i] : i \in 1..k} = act
  /\ Nodes(s) = act \cup bnd
  /\ L.nActiveNodes = k
  /\ L.lastactive = (IF k = 0 THEN 0 ELSE s[k])
  /\ (L.lastactive = 0) <=> (L.nActiveNodes = 0)
  /\ (L.last = L.lastactive) <=> (bnd = {})

\* C11: after any sequence of insertions and removals from an empty list,
\* each removal made when the part it removes from has a node, the nodes from
\* first to lastactive are the nodes inserted as active that are still there,
\* the boundary nodes follow lastactive, nActiveNodes counts the nodes from
\* first to lastactive, lastactive is 0 exactly when nActiveNodes is 0, and
\* last is lastactive exactly when there is no boundary node.
C11_TwoPartStructure ==
  TwoParts(list, Chain(list), Cardinality(call.active), call.active, call.bound)

\* The place of node n in the chain s.
Place(s, n) == CHOOSE i \in 1..Len(s) : s[i] = n

\* The node n is in the active part of the well-formed list L.
WasActive(L, n) == Place(Chain(L), n) <= L.nActiveNodes

\* The list is an acyclic chain from first to last of the nodes of L.
SameNodes(L) ==
  LET s == Chain(list)
  IN  /\ list.fault = "none"
      /\ 0 \notin Nodes(s)
      /\ Len(s) = Len(Chain(L))
      /\ Nodes(s) = Nodes(Chain(L))
      /\ list.last = s[Len(s)]

\* The node n is the first node after the active part of the list.
FirstAfterActive(n) ==
  IF list.lastactive = 0 THEN list.first = n
  ELSE Usable(list, list.lastactive) /\ list.next[list.lastactive] = n /\ n # list.lastactive

\* moveToBoundFront has been called on a list in order with an active node.
AfterMoveToBoundFront ==
  /\ call.op = "moveToBoundFront"
  /\ WellFormed(call.before)
  /\ call.before.nActiveNodes > 0

\* C12: after moveToBoundFront(mvnode) on a list with an active node, the
\* list is an acyclic chain from first to last of the same nodes as before,
\* mvnode is the first node after the active part, and nActiveNodes is one
\* less exactly when mvnode was in the active part.
C12_MovedToBoundFront ==
  AfterMoveToBoundFront =>
    /\ SameNodes(call.before)
    /\ FirstAfterActive(call.node)
    /\ list.nActiveNodes =
         call.before.nActiveNodes - (IF WasActive(call.before, call.node) THEN 1 ELSE 0)

\* The place before the node n of the well-formed list L: its predecessor,
\* or 0 for the first node.
Predecessor(L, n) ==
  LET s == Chain(L) IN IF Place(s, n) = 1 THEN 0 ELSE s[Place(s, n) - 1]

\* moveToBack has been called on a list in order.
AfterMoveToBack == call.op = "moveToBack" /\ WellFormed(call.before)

\* The node n is after lastactive on the chain of the list.
InBoundary(n) ==
  LET s == Chain(list)
  IN  /\ n \in Nodes(s)
      /\ n # list.lastactive
      /\ list.lastactive # 0 => /\ list.lastactive \in Nodes(s)
                                /\ Place(s, list.lastactive) < Place(s, n)

\* C13: after moveToBack(mvnode), mvnode is the last node and is after
\* lastactive; if it was active nActiveNodes is one less, and if it was
\* lastactive then lastactive is its former predecessor, or 0 if it was first.
C13_MovedToBack ==
  AfterMoveToBack =>
    /\ list.fault = "none"
    /\ list.last = call.node
    /\ InBoundary(call.node)
    /\ WasActive(call.before, call.node) =>
         list.nActiveNodes = call.before.nActiveNodes - 1
    /\ call.node = call.before.lastactive =>
         list.lastactive = Predecessor(call.before, call.node)

\* moveToActiveBack has been called on a list in order.
AfterMoveToActiveBack == call.op = "moveToActiveBack" /\ WellFormed(call.before)

\* C14: moveToActiveBack(mvnode) leaves nActiveNodes as it was and keeps the
\* nodes of the list; afterwards lastactive is mvnode, the node before mvnode
\* is the lastactive of before (mvnode stays where it is if it was lastactive
\* itself), and last is mvnode if there was no boundary node.
C14_MovedToActiveBack ==
  AfterMoveToActiveBack =>
    /\ list.fault = "none"
    /\ list.nActiveNodes = call.before.nActiveNodes
    /\ Nodes(Chain(list)) = Nodes(Chain(call.before))
    /\ 0 \notin Nodes(Chain(list))
    /\ list.lastactive = call.node
    /\ IF call.node = call.before.lastactive THEN list = call.before
       ELSE /\ Usable(list, call.before.lastactive)
            /\ list.next[call.before.lastactive] = call.node
    /\ isBoundEmpty(call.before) => list.last = call.node

(***************************************************************************)
(* The input files of InitialGW.                                           *)
(***************************************************************************)
\* The files named in the control file that cannot be opened.
Missing == {Inputs[i] : i \in DOMAIN Inputs} \ gw.openable

\* The first of them in the order main opens them.
FirstMissing == Inputs[CHOOSE i \in DOMAIN Inputs :
                         Inputs[i] \in Missing /\ \A j \in 1..(i - 1) : Inputs[j] \notin Missing]

\* Data of a header or of a grid.
HeaderOrGridData ==
  {"DEM header", "Flow Accumulations header", "Flow Directions header",
   "soil parameters", "grid data"}

\* main was started with the control file as its argument and has come to
\* the statement that opens the input files.
OpeningInputs == gw.argc = 2 /\ "control" \in gw.openable /\ gw.pc \notin {"none", "usage", "Inp0"}

\* C15: if one of the four input files named in the control file cannot be
\* opened, InitialGW reports that file as not found and exits with status 2
\* before it reads a header or grid data; with a wrong argument count it
\* exits with status 1.
C15_MissingInputExits ==
  /\ (OpeningInputs /\ Missing # {}) =>
       /\ gw.read \cap HeaderOrGridData = {}
       /\ gw.pc \in {"Inp1", "Inp2", "Inp3", "Inp4", "exit"}
       /\ gw.pc = "exit" => gw.status = 2 /\ gw.reported = {FirstMissing}
  /\ (gw.argc # 2 /\ gw.pc \notin {"none", "usage"}) =>
       gw.pc = "exit" /\ gw.status = 1 /\ gw.read = {}

(***************************************************************************)
(* The list without active nodes.                                          *)
(***************************************************************************)
\* The member functions that use lastactive.
UsingLastActive ==
  {"removeFromActiveBack", "removeFromBoundFront", "removePrev", "moveToActiveBack",
   "moveToBoundFront"}

\* One of them has been called on a list in order that has nodes and no
\* active node.  Every node on such a list can be used, so that the only null
\* pointer a call can follow is lastactive (or the end of the chain).
CalledWithoutActive ==
  /\ call.op \in UsingLastActive
  /\ WellFormed(call.before)
  /\ ~isEmpty(call.before)
  /\ call.before.lastactive = 0

\* C24: on a list with boundary nodes only, removeFromActiveBack,
\* removeFromBoundFront, removePrev, moveToActiveBack and moveToBoundFront
\* complete without following the null pointer lastactive, and
\* removeFromActiveBack leaves the list as it was.
C24_NullLastActiveNotFollowed ==
  CalledWithoutActive =>
    /\ list.fault = "none"
    /\ call.op = "removeFromActiveBack" => list = call.before

(***************************************************************************)
(* nActiveNodes when an interior node is removed.                          *)
(***************************************************************************)
\* removeNext or removePrev has been called on a list in order and has
\* removed a node other than the first, the last and lastactive, which only
\* the function of the base list does.
RemovedInterior ==
  /\ call.op \in {"removeNext", "removePrev"}
  /\ WellFormed(call.before)
  /\ Deleted(call.before, list)
  /\ Value(call.before, list) \notin
       {call.before.first, call.before.last, call.before.lastactive}

\* C25: when removeNext or removePrev removes an interior node by the function
\* of the base list, nActiveNodes is one less if the boundary flag of the
\* removed node is kNonBoundary or kStream, as tMeshListIter::IsActive has
\* it, and is unchanged for every other flag.
C25_SameRuleForNextAndPrev ==
  RemovedInterior =>
    list.nActiveNodes =
      call.before.nActiveNodes
        - (IF IsActive(call.before, Value(call.before, list)) THEN 1 ELSE 0)

(***************************************************************************)
(* C21.  From `finnow = fin1; finother = fin2' to the return of            *)
(* incircleadapt: at every statement                                       *)
(*   finlength = fast_expansion_sum_zeroelim(finlength, finnow, .., finother) *)
(* finnow, the input, and finother, the output, are fin1 and fin2, one     *)
(* each; after each swap finnow is the array that the sum before it wrote  *)
(* and finlength is the length that sum returned, within what was written; *)
(* and the return statement reads finnow[finlength - 1] from the array     *)
(* that the last sum wrote.                                                *)
(***************************************************************************)
\* finnow and finother are fin1 and fin2, one each.
TwoArrays(L) ==
  /\ Resolve(L, "finnow") # Resolve(L, "finother")
  /\ {Resolve(L, "finnow"), Resolve(L, "finother")} = {"fin1", "fin2"}

\* The next statement is a sum into the final expansion.
AtAccumulation ==
  /\ frame.pc = "exact"
  /\ frame.todo # <<>>
  /\ Accumulates(Head(frame.todo))

\* A sum into the final expansion has been swapped in.
AfterSwap == frame.pc = "exact" /\ frame.sums >= 1 /\ ~frame.swapping

C21_FinnowFinotherAlternate ==
  /\ AtAccumulation =>
       /\ Head(frame.todo).e = "finnow"
       /\ Head(frame.todo).x = "finother"
       /\ TwoArrays(frame.L)
  /\ AfterSwap =>
       /\ TwoArrays(frame.L)
       /\ Resolve(frame.L, "finnow") = frame.written
       /\ frame.L.s.finlength = frame.len
       /\ Readable(frame.L, "finnow", frame.len)
  /\ (frame.pc = "ret" /\ out.ret # Unwritten) =>
       /\ frame.sums >= 1
       /\ frame.read = frame.written
       /\ frame.index = frame.len - 1
       /\ out = frame.big

\* incircle returned after two sums or more into the final expansion, the last
\* of them written into fin1 again.
C21_ReturnedFromFin1 ==
  /\ frame.pc = "ret"
  /\ frame.sums = 2
  /\ frame.read = "fin1"
  /\ frame.written = "fin1"
  /\ out.ret = frame.big.ret

(***************************************************************************)
(* C22.  In a call of incircle that goes on to the end of incircleadapt,   *)
(* whichever of the six tails are zero, no statement reads a scalar, a     *)
(* length or the elements of an expansion (aa, bb, cc, axtbc .. cytab,     *)
(* bct, cat, abt, bctt, catt, abtt and their lengths among them) that no   *)
(* earlier statement of the same call has assigned.                        *)
(***************************************************************************)
C22_ReadsAssigned == (Encircled /\ out.tier = "D") => ~out.undef

\* The tails by name.
TailsNonzero(t) == {i \in 1..6 : t[i] # 0}

\* incircle returned from the end of incircleadapt with the tails of adx, bdy
\* and cdy nonzero and the other three zero: the terms of second order in
\* adxtail with bdytail and with cdytail are computed from aa, bb, cc, bct and
\* bctt.
C22_SomeTailsNonzero ==
  /\ Encircled
  /\ out.tier = "D"
  /\ TailsNonzero(out.tails) = {1, 4, 6}
  /\ ~out.undef
  /\ out.finlength >= 1

(***************************************************************************)
(* C23.  fast_expansion_sum, fast_expansion_sum_zeroelim,                  *)
(* linear_expansion_sum and linear_expansion_sum_zeroelim read e only at   *)
(* the indices 0 .. elen - 1 and f only at 0 .. flen - 1.                  *)
(***************************************************************************)
SumNames ==
  {"fast_expansion_sum", "fast_expansion_sum_zeroelim",
   "linear_expansion_sum", "linear_expansion_sum_zeroelim"}

\* The merge when the loops of the function are over.  Every assignment of
\* eindex but the first is `enow = e[++eindex]' and every one of findex is
\* `fnow = f[++findex]': e has been read at 0 .. eindex, f at 0 .. findex.
SumMerge(name, e, f) ==
  CASE name = "fast_expansion_sum" ->
         fast_sum_loops(e, f, fast_sum_second(e, f, merge_first(e, f), FALSE), FALSE)
    [] name = "fast_expansion_sum_zeroelim" ->
         fast_sum_loops(e, f, fast_sum_second(e, f, merge_first(e, f), TRUE), TRUE)
    [] name = "linear_expansion_sum" ->
         linear_sum_loop(e, f, linear_sum_second(e, f, merge_first(e, f)), 2, FALSE)
    [] name = "linear_expansion_sum_zeroelim" ->
         linear_sum_loop(e, f, linear_sum_second(e, f, merge_first(e, f)), 2, TRUE)

\* The largest index at which the call has read e, f.
LastReadOfE == SumMerge(op, args[1], args[2]).eindex

LastReadOfF == SumMerge(op, args[1], args[2]).findex

C23_ReadsWithinLengths ==
  (ctl = "ret" /\ op \in SumNames) =>
    /\ LastReadOfE <= Len(args[1]) - 1
    /\ LastReadOfF <= Len(args[2]) - 1

\* What the four functions do instead: when they return, each array has been
\* read up to the element behind its last one.
ReadsOnePastEnd ==
  (ctl = "ret" /\ op \in SumNames) =>
    /\ LastReadOfE = Len(args[1])
    /\ LastReadOfF = Len(args[2])
=============================================================================
